---- MODULE Spec2Model ----
(***************************************************************************)
(* Financial Forensics Engine: the analyze pipeline of backend/app/main.py *)
(* (build_graph, detect_cycles, detect_smurfing, detect_shell_networks,    *)
(* assign_ring_ids, calculate_scores, format_output) as a state machine    *)
(* over a validated transaction table.                                     *)
(*                                                                         *)
(* Accounts are naturals; their numeric order stands for the lexicographic *)
(* order of the account id strings.  Timestamps are seconds.  Scores are   *)
(* kept in tenths of a point (the code rounds every score to one decimal). *)
(***************************************************************************)
EXTENDS Integers, Sequences, FiniteSets, TLC

VARIABLES
    df,                 \* the validated transaction table (parse_csv's result)
    pc,                 \* position of the request inside analyze / detect_cycles
    G,                  \* the graph of build_graph: [nodes, edges]
    cyc_todo,           \* simple cycles the enumerator has still to yield
    stop_event,         \* detect_cycles: threading.Event set by the timer
    timer_active,       \* detect_cycles: the Timer is started and not cancelled
    timed_out,          \* detect_cycles: local flag
    seen,               \* detect_cycles: canonical keys already appended
    cycle_count,        \* detect_cycles: local counter
    cycle_rings,        \* result of detect_cycles
    smurf_rings,        \* result of detect_smurfing
    shell_rings,        \* result of detect_shell_networks
    all_rings,          \* result of assign_ring_ids
    anomaly_accounts,   \* calculate_scores parameter (main.py passes none)
    rapid_accounts,     \* calculate_scores parameter (main.py passes none)
    structuring_accounts, \* calculate_scores parameter (main.py passes none)
    account_scores,     \* result of calculate_scores, in dict insertion order
    report              \* result of format_output

vars == <<df, pc, G, cyc_todo, stop_event, timer_active, timed_out, seen,
          cycle_count, cycle_rings, smurf_rings, shell_rings, all_rings,
          anomaly_accounts, rapid_accounts, structuring_accounts,
          account_scores, report>>

(***************************************************************************)
(* Configuration (config.py defaults)                                      *)
(***************************************************************************)
CYCLE_MIN_LEN == 3
CYCLE_MAX_LEN == 5
MAX_CYCLES == 5000
FAN_THRESHOLD == 10
SMURF_WINDOW_HOURS == 72
\* MERCHANT_AMOUNT_CV_THRESHOLD = 0.15, kept as a fraction
MERCHANT_CV_NUM == 15
MERCHANT_CV_DEN == 100
PAYROLL_BATCH_SECONDS == 60
SHELL_MAX_TX == 3
SHELL_MIN_CHAIN == 3
SHELL_MAX_CHAIN == 6
MAX_SHELL_CHAINS == 1000
SCORE_CYCLE_3 == 35
SCORE_CYCLE_4 == 30
SCORE_CYCLE_5 == 25
SCORE_FAN_IN == 28
SCORE_FAN_OUT == 28
SCORE_SHELL == 22
SCORE_HIGH_VELOCITY == 15
SCORE_MULTI_RING_BONUS == 10
SCORE_CENTRALITY_MAX == 10
HIGH_VELOCITY_TX_PER_DAY == 5
SCORE_AMOUNT_ANOMALY == 20
SCORE_ROUND_TRIP == 20
SCORE_RAPID_MOVEMENT == 20
SCORE_STRUCTURING == 15
CENTRALITY_MAX_NODES == 500
SECONDS_PER_DAY == 86400
SECONDS_PER_HOUR == 3600
\* ROUND_TRIP_AMOUNT_TOLERANCE = 0.2, in percent
ROUND_TRIP_TOLERANCE_PCT == 20
AMOUNT_ANOMALY_STDDEV == 3
MIN_TX_FOR_ANOMALY == 5
RAPID_MOVEMENT_MINUTES == 30
STRUCTURING_THRESHOLD == 10000
\* STRUCTURING_MARGIN = 0.15, in percent
STRUCTURING_MARGIN_PCT == 15
STRUCTURING_MIN_TX == 3
MIN_SUSPICION_SCORE == 20

(***************************************************************************)
(* Bounds of the model                                                     *)
(***************************************************************************)
MaxEdges == 6           \* edges of a table of the small-graph family
VarSpokes == 3          \* spokes of a fan table whose row is chosen freely
MaxRings == 3           \* rings of a ring list handed to calculate_scores

(***************************************************************************)
(* Generic helpers                                                         *)
(***************************************************************************)
Range(s) == { s[i] : i \in DOMAIN s }

SetMin(S) == CHOOSE x \in S : \A y \in S : x <= y

SetMax(S) == CHOOSE x \in S : \A y \in S : x >= y

\* sorted(S) for a set of accounts
SortSet(S) ==
    [k \in 1..Cardinality(S) |->
        CHOOSE x \in S : Cardinality({ y \in S : y <= x }) = k]

RECURSIVE SeqSum(_)
SeqSum(s) == IF s = << >> THEN 0 ELSE s[1] + SeqSum(Tail(s))

\* all orders in which a set can be iterated
Perms(S) ==
    { p \in [1..Cardinality(S) -> S] : \A i, j \in DOMAIN p : i # j => p[i] # p[j] }

\* the function f as an explicit table, so that TLC evaluates each entry once
Table(f) == f @@ << >>

\* list.index(x): the first position of x
IndexOf(s, x) == SetMin({ i \in DOMAIN s : s[i] = x })

(***************************************************************************)
(* Transaction tables                                                      *)
(***************************************************************************)
Tx(s, r, amt, ts) ==
    [sender_id |-> s, receiver_id |-> r, amount |-> amt, timestamp |-> ts]

\* the rows of df whose column col equals v, in row order
Rows(d, col, v) == SelectSeq(d, LAMBDA t : t[col] = v)

Accounts(d) ==
    { d[i].sender_id : i \in DOMAIN d } \cup { d[i].receiver_id : i \in DOMAIN d }

(***************************************************************************)
(* build_graph                                                             *)
(***************************************************************************)
EdgesOf(d) == { << d[i].sender_id, d[i].receiver_id >> : i \in DOMAIN d }

\* node attribute tx_count = sent_count + received_count
TxCount(d, n) ==
    Cardinality({ i \in DOMAIN d : d[i].sender_id = n })
    + Cardinality({ i \in DOMAIN d : d[i].receiver_id = n })

build_graph(d) ==
    [nodes |-> Accounts(d),
     edges |-> EdgesOf(d),
     tx_count |-> [n \in Accounts(d) |-> TxCount(d, n)]]

\* G.successors(u): adjacency in insertion order; the edges are added from
\* the (sender_id, receiver_id) groupby, which is sorted by key
Successors(g, u) == SortSet({ v \in g.nodes : << u, v >> \in g.edges })

InDegree(g, n) == Cardinality({ u \in g.nodes : << u, n >> \in g.edges })

OutDegree(g, n) == Cardinality({ v \in g.nodes : << n, v >> \in g.edges })

RECURSIVE ReachFrom(_, _, _)
\* nodes reachable from the frontier, done already included
ReachFrom(E, frontier, done) ==
    IF frontier = {} THEN done
    ELSE LET nxt == { e[2] : e \in { e \in E : e[1] \in frontier } } \ done
         IN ReachFrom(E, nxt, done \cup nxt)

\* nx.strongly_connected_components, as a set of node sets
SCCs(g) ==
    LET R == Table([u \in g.nodes |-> ReachFrom(g.edges, {u}, {u})])
    IN { { v \in R[u] : u \in R[v] } : u \in g.nodes }

(***************************************************************************)
(* detect_cycles                                                           *)
(***************************************************************************)
\* scc_nodes: union of the components of size >= CYCLE_MIN_LEN
SccNodes(g) == UNION { c \in SCCs(g) : Cardinality(c) >= CYCLE_MIN_LEN }

RECURSIVE CyclesFrom(_, _, _)
\* the simple cycles of the subgraph induced on N that extend path, each
\* written from its smallest node
CyclesFrom(E, N, path) ==
    LET last == path[Len(path)]
        closes == IF << last, path[1] >> \in E THEN { path } ELSE {}
        ext == { v \in N : /\ v > path[1]
                           /\ << last, v >> \in E
                           /\ v \notin Range(path) }
    IN closes \cup UNION { CyclesFrom(E, N, Append(path, v)) : v \in ext }

\* what nx.simple_cycles(H) enumerates, H = G.subgraph(N): every elementary
\* circuit of H, of any length
SimpleCycles(g, N) == UNION { CyclesFrom(g.edges, N, << s >>) : s \in N }

\* the list the enumerator hands out for a circuit: any rotation of it
Rotate(c, k) == [i \in 1..Len(c) |-> c[((i + k - 2) % Len(c)) + 1]]

NoRotation_canonical_cycle(cycle) == cycle

_canonical_cycle(cycle) ==
    IF cycle = << >> THEN cycle
    ELSE LET min_idx == IndexOf(cycle, SetMin(Range(cycle)))
         IN SubSeq(cycle, min_idx, Len(cycle)) \o SubSeq(cycle, 1, min_idx - 1)

PatternOfLength(length) ==
    CASE length = 3 -> "cycle_length_3"
      [] length = 4 -> "cycle_length_4"
      [] length = 5 -> "cycle_length_5"
      [] OTHER -> "cycle_length_n"

\* every ring dict of the model carries the same keys; hub = 0 and
\* ring_id = << >> stand for an absent key
Ring(members, pattern, hub, intermediaries) ==
    [members |-> members, pattern |-> pattern, hub |-> hub,
     shell_intermediaries |-> intermediaries,
     merged_patterns |-> {}, ring_id |-> << >>]

(***************************************************************************)
(* detect_smurfing                                                         *)
(***************************************************************************)
\* df.sort_values("timestamp"); rows with equal timestamps keep their order.
\* place[i] is the position of row i in the sorted table
SortByTime(d) ==
    LET place == Table([i \in DOMAIN d |->
                   Cardinality({ j \in DOMAIN d :
                       \/ d[j].timestamp < d[i].timestamp
                       \/ d[j].timestamp = d[i].timestamp /\ j <= i })])
    IN [k \in DOMAIN d |-> d[CHOOSE i \in DOMAIN d : place[i] = k]]

Column(d, col) == [i \in DOMAIN d |-> d[i][col]]

\* coefficient of variation (population std / mean) of the amounts exceeds
\* MERCHANT_CV_NUM / MERCHANT_CV_DEN; both sides squared and scaled by n^2
CvAboveThreshold(amounts) ==
    LET n == Len(amounts)
        total == SeqSum(amounts)
        squares == SeqSum([i \in DOMAIN amounts |-> amounts[i] * amounts[i]])
    IN (n * squares - total * total) * MERCHANT_CV_DEN * MERCHANT_CV_DEN
           > MERCHANT_CV_NUM * MERCHANT_CV_NUM * total * total

NoMerchants_merchant_receivers(d) == {}

_merchant_receivers(d) ==
    { receiver \in Range(Column(d, "receiver_id")) :
        LET amounts == Column(Rows(d, "receiver_id", receiver), "amount")
        IN /\ Len(amounts) >= 2
           /\ SeqSum(amounts) # 0
           /\ CvAboveThreshold(amounts) }

_payroll_senders(d) ==
    { sender \in Range(Column(d, "sender_id")) :
        LET times == Column(SortByTime(Rows(d, "sender_id", sender)), "timestamp")
        IN /\ Len(times) >= 2
           /\ times[Len(times)] - times[1] <= PAYROLL_BATCH_SECONDS }

\* window[cp] = window.get(cp, 0) + 1
WindowAdd(window, cp) ==
    [k \in DOMAIN window \cup {cp} |->
        IF k \in DOMAIN window
        THEN (IF k = cp THEN window[k] + 1 ELSE window[k])
        ELSE 1]

\* window[lcp] -= 1; if window[lcp] == 0: del window[lcp]
WindowRemove(window, lcp) ==
    IF window[lcp] - 1 = 0
    THEN [k \in DOMAIN window \ {lcp} |-> window[k]]
    ELSE [window EXCEPT ![lcp] = @ - 1]

NeverShrinkWindow(sorted_times, sorted_counterparts, hub, window_td, right, st) == st

RECURSIVE ShrinkWindow(_, _, _, _, _, _)
\* the inner while loop of _sliding_window_unique; st = [left, window]
ShrinkWindow(sorted_times, sorted_counterparts, hub, window_td, right, st) ==
    IF sorted_times[right] - sorted_times[st.left] > window_td
    THEN LET lcp == sorted_counterparts[st.left]
         IN ShrinkWindow(sorted_times, sorted_counterparts, hub, window_td, right,
                [left |-> st.left + 1,
                 window |-> IF lcp # hub THEN WindowRemove(st.window, lcp)
                            ELSE st.window])
    ELSE st

RECURSIVE SlideFrom(_, _, _, _, _, _, _)
\* the for loop of _sliding_window_unique from index right on
SlideFrom(sorted_times, sorted_counterparts, hub, window_td, threshold, right, st) ==
    IF right > Len(sorted_times) THEN [triggered |-> FALSE, unique |-> {}]
    ELSE LET cp == sorted_counterparts[right]
             added == [left |-> st.left,
                       window |-> IF cp # hub THEN WindowAdd(st.window, cp)
                                  ELSE st.window]
             st2 == ShrinkWindow(sorted_times, sorted_counterparts, hub,
                                 window_td, right, added)
         IN IF Cardinality(DOMAIN st2.window) >= threshold
            THEN [triggered |-> TRUE, unique |-> DOMAIN st2.window]
            ELSE SlideFrom(sorted_times, sorted_counterparts, hub, window_td,
                           threshold, right + 1, st2)

_sliding_window_unique(sorted_times, sorted_counterparts, hub, window_td, threshold) ==
    IF Len(sorted_times) < threshold THEN [triggered |-> FALSE, unique |-> {}]
    ELSE SlideFrom(sorted_times, sorted_counterparts, hub, window_td, threshold,
                   1, [left |-> 1, window |-> [k \in {} |-> 0]])

WindowTd == SMURF_WINDOW_HOURS * SECONDS_PER_HOUR

RECURSIVE FanInRings(_, _, _)
\* the fan-in loop over the receiver groups, in key order
FanInRings(df_s, excluded_fan_in, receivers) ==
    IF receivers = << >> THEN << >>
    ELSE LET receiver == Head(receivers)
             grp == SortByTime(Rows(df_s, "receiver_id", receiver))
             res == _sliding_window_unique(Column(grp, "timestamp"),
                        Column(grp, "sender_id"), receiver, WindowTd, FAN_THRESHOLD)
             ring == IF receiver \notin excluded_fan_in /\ res.triggered
                     THEN << Ring(SortSet(res.unique) \o << receiver >>,
                                  "fan_in", receiver, << >>) >>
                     ELSE << >>
         IN ring \o FanInRings(df_s, excluded_fan_in, Tail(receivers))

RECURSIVE FanOutRings(_, _, _)
\* the fan-out loop over the sender groups, in key order
FanOutRings(df_s, excluded_fan_out, senders) ==
    IF senders = << >> THEN << >>
    ELSE LET sender == Head(senders)
             grp == SortByTime(Rows(df_s, "sender_id", sender))
             res == _sliding_window_unique(Column(grp, "timestamp"),
                        Column(grp, "receiver_id"), sender, WindowTd, FAN_THRESHOLD)
             ring == IF sender \notin excluded_fan_out /\ res.triggered
                     THEN << Ring(<< sender >> \o SortSet(res.unique),
                                  "fan_out", sender, << >>) >>
                     ELSE << >>
         IN ring \o FanOutRings(df_s, excluded_fan_out, Tail(senders))

detect_smurfing(d) ==
    LET df_s == SortByTime(d)
    IN FanInRings(df_s, _merchant_receivers(d),
                  SortSet(Range(Column(d, "receiver_id"))))
       \o FanOutRings(df_s, _payroll_senders(d),
                      SortSet(Range(Column(d, "sender_id"))))

(***************************************************************************)
(* detect_shell_networks                                                   *)
(***************************************************************************)
\* cycle_nodes: members of a strongly connected component of size > 1
CycleNodes(g) == UNION { c \in SCCs(g) : Cardinality(c) > 1 }

NoSccFilter_ShellNodes(g) ==
    { n \in g.nodes : /\ g.tx_count[n] <= SHELL_MAX_TX
                      /\ InDegree(g, n) > 0
                      /\ OutDegree(g, n) > 0 }

ShellNodes(g) ==
    { n \in g.nodes : /\ g.tx_count[n] <= SHELL_MAX_TX
                      /\ InDegree(g, n) > 0
                      /\ OutDegree(g, n) > 0
                      /\ n \notin CycleNodes(g) }

\* the nodes that candidate_sources lists, in whatever order G.nodes() has
CandidateSources(g) ==
    { n \in g.nodes : \E nbr \in Range(Successors(g, n)) : nbr \in ShellNodes(g) }

RECURSIVE ShellExtend(_, _, _, _, _)
\* the for loop over G.successors(current) for one popped path;
\* st = [stack, rings, seen_paths, chain_count, cap], cap being the value
\* config.py gave MAX_SHELL_CHAINS
ShellExtend(g, shell_nodes, path, nbrs, st) ==
    IF nbrs = << >> THEN st
    ELSE LET nbr == Head(nbrs)
             new_path == Append(path, nbr)
             new_hops == Len(path)
             intermediaries == SubSeq(new_path, 2, Len(new_path) - 1)
             record == /\ new_hops >= SHELL_MIN_CHAIN
                       /\ \A i \in DOMAIN intermediaries :
                              intermediaries[i] \in shell_nodes
                       /\ intermediaries \notin st.seen_paths
             st1 == IF record
                    THEN [st EXCEPT
                            !.seen_paths = @ \cup { intermediaries },
                            !.rings = Append(@, Ring(intermediaries, "shell_chain",
                                                     0, intermediaries)),
                            !.chain_count = @ + 1]
                    ELSE st
             st2 == IF nbr \in shell_nodes /\ new_hops < SHELL_MAX_CHAIN
                    THEN [st1 EXCEPT !.stack = Append(@, new_path)]
                    ELSE st1
         IN IF nbr \in Range(path)
            THEN ShellExtend(g, shell_nodes, path, Tail(nbrs), st)
            ELSE ShellExtend(g, shell_nodes, path, Tail(nbrs), st2)

RECURSIVE NoCap_ShellWhile(_, _, _)
\* while stack: path = stack.pop() ...
NoCap_ShellWhile(g, shell_nodes, st) ==
    IF st.stack = << >> THEN st
    ELSE LET path == st.stack[Len(st.stack)]
             popped == [st EXCEPT !.stack = SubSeq(@, 1, Len(@) - 1)]
         IN NoCap_ShellWhile(g, shell_nodes,
                ShellExtend(g, shell_nodes, path,
                            Successors(g, path[Len(path)]), popped))

RECURSIVE ShellWhile(_, _, _)
\* while stack and chain_count < MAX_SHELL_CHAINS: path = stack.pop() ...
ShellWhile(g, shell_nodes, st) ==
    IF st.stack = << >> \/ st.chain_count >= st.cap THEN st
    ELSE LET path == st.stack[Len(st.stack)]
             popped == [st EXCEPT !.stack = SubSeq(@, 1, Len(@) - 1)]
         IN ShellWhile(g, shell_nodes,
                ShellExtend(g, shell_nodes, path,
                            Successors(g, path[Len(path)]), popped))

RECURSIVE ShellSources(_, _, _, _)
\* for source in candidate_sources
ShellSources(g, shell_nodes, sources, st) ==
    IF sources = << >> \/ st.chain_count >= st.cap THEN st
    ELSE LET source == Head(sources)
             first == SelectSeq(Successors(g, source), LAMBDA nbr : nbr \in shell_nodes)
             stack == [i \in DOMAIN first |-> << source, first[i] >>]
         IN ShellSources(g, shell_nodes, Tail(sources),
                ShellWhile(g, shell_nodes, [st EXCEPT !.stack = stack]))

\* detect_shell_networks with MAX_SHELL_CHAINS read from the environment as
\* cap; candidate_sources is the order in which G.nodes() lists the candidates
ShellNetworks(g, candidate_sources, cap) ==
    IF ShellNodes(g) = {} THEN << >>
    ELSE ShellSources(g, ShellNodes(g), candidate_sources,
            [stack |-> << >>, rings |-> << >>, seen_paths |-> {},
             chain_count |-> 0, cap |-> cap]).rings

\* detect_shell_networks under the default configuration
detect_shell_networks(g, candidate_sources) ==
    ShellNetworks(g, candidate_sources, MAX_SHELL_CHAINS)

(***************************************************************************)
(* utils.py: _should_merge, _merge_rings, assign_ring_ids                  *)
(***************************************************************************)
\* (overlap / smaller) >= _MERGE_OVERLAP_RATIO with _MERGE_OVERLAP_RATIO = 0.5
_should_merge(ring_a, ring_b) ==
    LET set_a == Range(ring_a.members)
        set_b == Range(ring_b.members)
        overlap == Cardinality(set_a \cap set_b)
        smaller == IF Cardinality(set_a) <= Cardinality(set_b)
                   THEN Cardinality(set_a) ELSE Cardinality(set_b)
    IN IF smaller = 0 THEN FALSE ELSE 2 * overlap >= smaller

_priority ==
    << "cycle_length_3", "cycle_length_4", "cycle_length_5",
       "fan_in", "fan_out", "round_trip", "shell_chain" >>

LastPriority_PrimaryPattern(current, current_patterns) ==
    LET hits == { i \in DOMAIN _priority : _priority[i] \in current_patterns }
    IN IF hits = {} THEN current.pattern ELSE _priority[SetMax(hits)]

\* for p in _priority: if p in current_patterns: current["pattern"] = p; break
PrimaryPattern(current, current_patterns) ==
    LET hits == { i \in DOMAIN _priority : _priority[i] \in current_patterns }
    IN IF hits = {} THEN current.pattern ELSE _priority[SetMin(hits)]

RECURSIVE MergeInner(_, _, _, _)
\* the loop over j of _merge_rings; current keeps the members of ring_i until
\* the loop is over; acc = [used, current_members, current_patterns]
MergeInner(rings, current, j, acc) ==
    IF j > Len(rings) THEN acc
    ELSE IF acc.used[j] THEN MergeInner(rings, current, j + 1, acc)
    ELSE IF _should_merge(current, rings[j])
         THEN MergeInner(rings, current, j + 1,
                [used |-> [acc.used EXCEPT ![j] = TRUE],
                 current_members |-> acc.current_members \cup Range(rings[j].members),
                 current_patterns |-> acc.current_patterns \cup { rings[j].pattern }])
         ELSE MergeInner(rings, current, j + 1, acc)

RECURSIVE MergeOuter(_, _, _, _)
\* the loop over i of _merge_rings
MergeOuter(rings, used, i, merged) ==
    IF i > Len(rings) THEN merged
    ELSE IF used[i] THEN MergeOuter(rings, used, i + 1, merged)
    ELSE LET current == rings[i]
             acc == MergeInner(rings, current, i + 1,
                        [used |-> used,
                         current_members |-> Range(current.members),
                         current_patterns |-> { current.pattern }])
             out == [current EXCEPT
                        !.members = SortSet(acc.current_members),
                        !.pattern = PrimaryPattern(current, acc.current_patterns),
                        !.merged_patterns = acc.current_patterns]
         IN MergeOuter(rings, [acc.used EXCEPT ![i] = TRUE], i + 1,
                       Append(merged, out))

_merge_rings(rings) ==
    IF rings = << >> THEN rings
    ELSE MergeOuter(rings, [i \in DOMAIN rings |-> FALSE], 1, << >>)

RECURSIVE Digits(_)
\* the decimal digits of a natural, most significant first
Digits(n) == IF n < 10 THEN << n >> ELSE Append(Digits(n \div 10), n % 10)

Unpadded_RingId(i) == Digits(i)

\* f"RING_{i:03d}": the digits of i, zero-padded to at least three
RingId(i) ==
    LET ds == Digits(i)
    IN IF Len(ds) >= 3 THEN ds
       ELSE [k \in 1..(3 - Len(ds)) |-> 0] \o ds

assign_ring_ids(cycle_rs, smurf_rs, shell_rs, roundtrip_rs, merge) ==
    LET combined == cycle_rs \o smurf_rs \o shell_rs \o roundtrip_rs
        rs == IF merge THEN _merge_rings(combined) ELSE combined
    IN [i \in DOMAIN rs |-> [rs[i] EXCEPT !.ring_id = RingId(i)]]

(***************************************************************************)
(* scoring.py                                                              *)
(***************************************************************************)
\* a score of x points, in tenths
Tenths(x) == 10 * x

\* PATTERN_SCORES.get(pattern, 10.0), in tenths
PatternScore(pattern) ==
    CASE pattern = "cycle_length_3" -> Tenths(SCORE_CYCLE_3)
      [] pattern = "cycle_length_4" -> Tenths(SCORE_CYCLE_4)
      [] pattern = "cycle_length_5" -> Tenths(SCORE_CYCLE_5)
      [] pattern = "fan_in" -> Tenths(SCORE_FAN_IN)
      [] pattern = "fan_out" -> Tenths(SCORE_FAN_OUT)
      [] pattern = "shell_chain" -> Tenths(SCORE_SHELL)
      [] pattern = "round_trip" -> Tenths(SCORE_ROUND_TRIP)
      [] OTHER -> Tenths(10)

\* count * 86400 > HIGH_VELOCITY_TX_PER_DAY * max(span seconds, 86400)
_velocity_accounts(d) ==
    IF d = << >> THEN {}
    ELSE LET times == Range(Column(d, "timestamp"))
             span == SetMax(times) - SetMin(times)
             span_floor == IF span > SECONDS_PER_DAY THEN span ELSE SECONDS_PER_DAY
         IN { a \in Accounts(d) :
                TxCount(d, a) * SECONDS_PER_DAY > HIGH_VELOCITY_TX_PER_DAY * span_floor }

RECURSIVE DistFrom(_, _, _, _, _)
\* length of a shortest path from the frontier's origin to t, -1 if none
DistFrom(E, frontier, done, t, dist) ==
    IF t \in frontier THEN dist
    ELSE IF frontier = {} THEN -1
    ELSE LET nxt == { e[2] : e \in { e \in E : e[1] \in frontier } } \ done
         IN DistFrom(E, nxt, done \cup nxt, t, dist + 1)

RECURSIVE SetSum(_, _)
\* sum of f over the set S
SetSum(f, S) ==
    IF S = {} THEN 0
    ELSE LET x == CHOOSE x \in S : TRUE IN f[x] + SetSum(f, S \ {x})

RECURSIVE NumPaths(_, _, _, _)
\* number of walks of exactly len edges from s to t (the shortest paths when
\* len is the distance)
NumPaths(E, s, t, len) ==
    IF len = 0 THEN (IF s = t THEN 1 ELSE 0)
    ELSE LET preds == { e[1] : e \in { e \in E : e[2] = t } }
         IN SetSum([u \in preds |-> NumPaths(E, s, u, len - 1)], preds)

RECURSIVE Gcd(_, _)
Gcd(a, b) == IF b = 0 THEN a ELSE Gcd(b, a % b)

RECURSIVE LcmOf(_)
LcmOf(S) ==
    IF S = {} THEN 1
    ELSE LET x == CHOOSE x \in S : TRUE
             rest == LcmOf(S \ {x})
         IN (x * rest) \div Gcd(x, rest)

\* nx.betweenness_centrality(G): for every node the sum over the ordered pairs
\* (s, t) of the share of shortest s-t paths through it.  The values are
\* returned as integers over one common denominator: calculate_scores only
\* uses the ratio c_val / max_c, which the normalisation leaves unchanged.
Betweenness(g) ==
    LET E == g.edges
        dist == Table([p \in g.nodes \X g.nodes |->
                         DistFrom(E, {p[1]}, {p[1]}, p[2], 0)])
        pairs == { p \in g.nodes \X g.nodes : p[1] # p[2] /\ dist[p] > 0 }
        sigma == Table([p \in pairs |-> NumPaths(E, p[1], p[2], dist[p])])
        denom == LcmOf({ sigma[p] : p \in pairs })
        through(v) ==
            { p \in pairs : /\ p[1] # v /\ p[2] # v
                            /\ << p[1], v >> \in pairs /\ << v, p[2] >> \in pairs
                            /\ dist[p] = dist[<< p[1], v >>] + dist[<< v, p[2] >>] }
    IN [v \in g.nodes |->
          SetSum([p \in through(v) |->
                    sigma[<< p[1], v >>] * sigma[<< v, p[2] >>] * (denom \div sigma[p])],
                 through(v))]

\* the dict of _centrality_scores; an empty function when the graph is skipped
_centrality_scores(g) ==
    IF Cardinality(g.nodes) > CENTRALITY_MAX_NODES THEN [v \in {} |-> 0]
    ELSE Betweenness(g)

\* alphabetical order of the pattern labels, as sorted() orders them
PatternOrder ==
    << "amount_anomaly", "cycle_length_3", "cycle_length_4", "cycle_length_5",
       "fan_in", "fan_out", "high_velocity", "multi_ring", "rapid_movement",
       "round_trip", "shell_chain", "structuring" >>

SortPatterns(ps) == SelectSeq(PatternOrder, LAMBDA p : p \in ps)

\* the parts of the explanation string, in order; _PATTERN_EXPLANATIONS has
\* a sentence for every label
_build_risk_explanation(patterns, ring_ids, extra) ==
    patterns
    \o (IF Len(ring_ids) > 1 THEN << "connected_to_rings" >>
        ELSE IF Len(ring_ids) > 0 THEN << "member_of_ring" >> ELSE << >>)
    \o (IF extra.has_min_dwell THEN << "fastest_pass_through" >> ELSE << >>)
    \o (IF extra.structured_tx_count # 0 THEN << "structured_transactions" >> ELSE << >>)

NoExtra == [has_min_dwell |-> FALSE, structured_tx_count |-> 0]

\* _entry(acc): data is the dict in insertion order
HasEntry(data, acc) == \E i \in DOMAIN data : data[i].acc = acc

_entry(data, acc) ==
    IF HasEntry(data, acc) THEN data
    ELSE Append(data, [acc |-> acc, score |-> 0, cent_num |-> 0, cent_den |-> 1,
                       patterns |-> {}, ring_ids |-> << >>, extra |-> NoExtra])

EntryIndex(data, acc) == CHOOSE i \in DOMAIN data : data[i].acc = acc

\* e = _entry(acc); e["score"] += points; e["patterns"] |= labels
Credit(data, acc, points, labels) ==
    LET d == _entry(data, acc)
        i == EntryIndex(d, acc)
    IN [d EXCEPT ![i].score = @ + points, ![i].patterns = @ \cup labels]

AllMembers_ScoreMember(data, ring, acc) ==
    LET d == _entry(data, acc)
        i == EntryIndex(d, acc)
        d1 == IF \E k \in DOMAIN d[i].ring_ids : d[i].ring_ids[k] = ring.ring_id
              THEN d
              ELSE [d EXCEPT ![i].ring_ids = Append(@, ring.ring_id)]
    IN Credit(d1, acc, PatternScore(ring.pattern), { ring.pattern })

\* the body of the loop over ring["members"]
ScoreMember(data, ring, acc) ==
    LET d == _entry(data, acc)
        i == EntryIndex(d, acc)
        d1 == IF \E k \in DOMAIN d[i].ring_ids : d[i].ring_ids[k] = ring.ring_id
              THEN d
              ELSE [d EXCEPT ![i].ring_ids = Append(@, ring.ring_id)]
        base_score == PatternScore(ring.pattern)
    IN IF ring.pattern \in { "fan_in", "fan_out" }
       THEN (IF acc = ring.hub THEN Credit(d1, acc, base_score, { ring.pattern })
             ELSE d1)
       ELSE IF ring.pattern = "shell_chain"
       THEN (IF acc \in Range(ring.shell_intermediaries)
             THEN Credit(d1, acc, base_score, { ring.pattern })
             ELSE Credit(d1, acc, base_score \div 2, {}))
       ELSE Credit(d1, acc, base_score, { ring.pattern })

\* one statement after another: value is computed, then Rest runs on it
Then(value, Rest(_)) == CHOOSE out \in { Rest(v) : v \in { value } } : TRUE

RECURSIVE ScoreMembers(_, _, _)
ScoreMembers(data, ring, members) ==
    IF members = << >> THEN data
    ELSE Then(ScoreMember(data, ring, Head(members)),
              LAMBDA d : ScoreMembers(d, ring, Tail(members)))

RECURSIVE ScoreRings(_, _)
\* 1. pattern contributions
ScoreRings(data, rings) ==
    IF rings = << >> THEN data
    ELSE Then(ScoreMembers(data, Head(rings), Head(rings).members),
              LAMBDA d : ScoreRings(d, Tail(rings)))

\* 2. multi-ring bonus
MultiRing(data) ==
    [i \in DOMAIN data |->
        LET extra_rings == IF Len(data[i].ring_ids) > 1
                           THEN Len(data[i].ring_ids) - 1 ELSE 0
        IN IF extra_rings > 0
           THEN [data[i] EXCEPT
                    !.score = @ + Tenths(SCORE_MULTI_RING_BONUS) * extra_rings,
                    !.patterns = @ \cup { "multi_ring" }]
           ELSE data[i]]

RECURSIVE CreditAll(_, _, _, _)
\* for acc in accounts: e = _entry(acc); e["score"] += points; add the label
CreditAll(data, accounts, points, label) ==
    IF accounts = << >> THEN data
    ELSE Then(Credit(data, Head(accounts), points, { label }),
              LAMBDA d : CreditAll(d, Tail(accounts), points, label))

\* 4. centrality bonus (c_val / max_c) * SCORE_CENTRALITY_MAX, kept as the
\* fraction cent_num / cent_den of tenths, for the accounts already in data
CentralityBonus(data, centrality) ==
    IF DOMAIN centrality = {} THEN data
    ELSE LET max_c == SetMax({ centrality[v] : v \in DOMAIN centrality })
         IN [i \in DOMAIN data |->
               IF data[i].acc \in DOMAIN centrality /\ max_c > 0
               THEN [data[i] EXCEPT
                        !.cent_num = centrality[data[i].acc] * Tenths(SCORE_CENTRALITY_MAX),
                        !.cent_den = max_c]
               ELSE data[i]]

RECURSIVE RapidBonus(_, _)
\* 6. rapid movement bonus; rapid is the dict as a list of items
RapidBonus(data, rapid) ==
    IF rapid = << >> THEN data
    ELSE LET d == Credit(data, Head(rapid).acc, Tenths(SCORE_RAPID_MOVEMENT),
                         { "rapid_movement" })
             i == EntryIndex(d, Head(rapid).acc)
         IN Then([d EXCEPT ![i].extra.has_min_dwell = TRUE],
                 LAMBDA d1 : RapidBonus(d1, Tail(rapid)))

RECURSIVE StructuringBonus(_, _)
\* 7. structuring bonus; structuring is the dict as a list of items
StructuringBonus(data, structuring) ==
    IF structuring = << >> THEN data
    ELSE LET d == Credit(data, Head(structuring).acc, Tenths(SCORE_STRUCTURING),
                         { "structuring" })
             i == EntryIndex(d, Head(structuring).acc)
         IN Then([d EXCEPT ![i].extra.structured_tx_count =
                               Head(structuring).structured_tx_count],
                 LAMBDA d1 : StructuringBonus(d1, Tail(structuring)))

\* round(x) of the non-negative fraction num / den, ties to even
RoundHalfEven(num, den) ==
    LET q == num \div den
        r == num % den
    IN IF 2 * r < den THEN q
       ELSE IF 2 * r > den THEN q + 1
       ELSE IF q % 2 = 0 THEN q ELSE q + 1

Uncapped_FinalScore(e) ==
    RoundHalfEven(e.score * e.cent_den + e.cent_num, e.cent_den)

\* float(min(round(e["score"], 1), 100.0)), in tenths
FinalScore(e) ==
    LET rounded == RoundHalfEven(e.score * e.cent_den + e.cent_num, e.cent_den)
    IN IF rounded < Tenths(100) THEN rounded ELSE Tenths(100)

\* 8. normalise and build explanations
Normalise(data) ==
    [i \in DOMAIN data |->
        LET patterns == SortPatterns(data[i].patterns)
        IN [acc |-> data[i].acc,
            score |-> FinalScore(data[i]),
            patterns |-> patterns,
            ring_ids |-> data[i].ring_ids,
            risk_explanation |->
                _build_risk_explanation(patterns, data[i].ring_ids, data[i].extra)]]

\* vel_order and anomaly_order are the orders in which the two sets happen
\* to be iterated; rapid and structuring are dicts in insertion order
calculate_scores(rings, d, g, vel_order, anomaly_order, rapid, structuring) ==
    LET s1 == ScoreRings(<< >>, rings)
        s2 == MultiRing(s1)
        s3 == CreditAll(s2, vel_order, Tenths(SCORE_HIGH_VELOCITY), "high_velocity")
        s4 == CentralityBonus(s3, _centrality_scores(g))
        s5 == CreditAll(s4, anomaly_order, Tenths(SCORE_AMOUNT_ANOMALY), "amount_anomaly")
        s6 == RapidBonus(s5, rapid)
        s7 == StructuringBonus(s6, structuring)
    IN Normalise(s7)

(***************************************************************************)
(* formatter.py                                                            *)
(***************************************************************************)
\* RING_RISK.get(pattern, 65.0), in tenths
RingRisk(pattern) ==
    CASE pattern = "cycle_length_3" -> Tenths(95)
      [] pattern = "cycle_length_4" -> Tenths(88)
      [] pattern = "cycle_length_5" -> Tenths(80)
      [] pattern = "fan_in" -> Tenths(75)
      [] pattern = "fan_out" -> Tenths(75)
      [] pattern = "shell_chain" -> Tenths(70)
      [] pattern = "round_trip" -> Tenths(82)
      [] OTHER -> Tenths(65)

\* min(round(base + max(n - 3, 0) * 0.5, 1), 100.0), in tenths
_risk_score(ring) ==
    LET n == Len(ring.members)
        raw == RingRisk(ring.pattern) + (IF n > 3 THEN (n - 3) * 5 ELSE 0)
    IN IF raw < Tenths(100) THEN raw ELSE Tenths(100)

\* base confidence by pattern, in thousandths
BaseConfidence(pattern) ==
    CASE pattern = "cycle_length_3" -> 950
      [] pattern = "cycle_length_4" -> 900
      [] pattern = "cycle_length_5" -> 820
      [] pattern = "fan_in" -> 780
      [] pattern = "fan_out" -> 780
      [] pattern = "shell_chain" -> 650
      [] pattern = "round_trip" -> 800
      [] OTHER -> 600

\* in thousandths; no ring of the pipeline carries a similarity
_confidence_score(ring) ==
    LET n == Len(ring.members)
        penalty == IF n > 10
                   THEN (IF (n - 10) * 10 < 150 THEN (n - 10) * 10 ELSE 150)
                   ELSE 0
        sized == BaseConfidence(ring.pattern) - penalty
        bonus == IF Cardinality(ring.merged_patterns) > 1
                 THEN (IF sized + 80 < 1000 THEN sized + 80 ELSE 1000)
                 ELSE sized
    IN IF bonus < 0 THEN 0 ELSE IF bonus > 1000 THEN 1000 ELSE bonus

Unsorted_SortDesc(items, key) == items

\* list.sort(key=..., reverse=True): descending by items[i][key], equal keys
\* keep their order.  place[i] is the position of item i in the sorted list
SortDesc(items, key) ==
    LET place == Table([i \in DOMAIN items |->
                   Cardinality({ j \in DOMAIN items :
                       \/ items[j][key] > items[i][key]
                       \/ items[j][key] = items[i][key] /\ j <= i })])
    IN [k \in DOMAIN items |-> items[CHOOSE i \in DOMAIN items : place[i] = k]]

format_output(rings, scores, total_accounts) ==
    LET fraud_rings ==
            SortDesc([i \in DOMAIN rings |->
                        [ring_id |-> rings[i].ring_id,
                         member_accounts |-> rings[i].members,
                         pattern_type |-> rings[i].pattern,
                         risk_score |-> _risk_score(rings[i]),
                         confidence |-> _confidence_score(rings[i])]],
                     "risk_score")
        kept == SelectSeq(scores, LAMBDA sc : ~(sc.score <= 0))
        suspicious_accounts ==
            SortDesc([i \in DOMAIN kept |->
                        [account_id |-> kept[i].acc,
                         suspicion_score |-> kept[i].score,
                         detected_patterns |-> kept[i].patterns,
                         ring_id |-> IF kept[i].ring_ids # << >>
                                     THEN kept[i].ring_ids[1] ELSE << >>,
                         risk_explanation |-> kept[i].risk_explanation]],
                     "suspicion_score")
    IN [suspicious_accounts |-> suspicious_accounts,
        fraud_rings |-> fraud_rings,
        summary |-> [total_accounts_analyzed |-> total_accounts,
                     suspicious_accounts_flagged |-> Len(suspicious_accounts),
                     fraud_rings_detected |-> Len(fraud_rings)]]

(***************************************************************************)
(* bidirectional_detector.py (analyze never calls it)                      *)
(***************************************************************************)
\* edge attribute total_amount of u -> v
EdgeTotal(d, u, v) ==
    SeqSum(Column(SelectSeq(d, LAMBDA t : t.sender_id = u /\ t.receiver_id = v),
                  "amount"))

RECURSIVE RoundTripEdges(_, _, _)
\* the loop over G.edges(data=True); st = [rings, seen]
RoundTripEdges(d, g, edge_order) ==
    IF edge_order = << >> THEN [rings |-> << >>, seen |-> {}]
    ELSE LET st == RoundTripEdges(d, g, SubSeq(edge_order, 1, Len(edge_order) - 1))
             u == edge_order[Len(edge_order)][1]
             v == edge_order[Len(edge_order)][2]
             key == { u, v }
             fwd_amount == EdgeTotal(d, u, v)
             rev_amount == EdgeTotal(d, v, u)
             larger == IF fwd_amount >= rev_amount THEN fwd_amount ELSE rev_amount
             smaller == IF fwd_amount >= rev_amount THEN rev_amount ELSE fwd_amount
         IN IF << v, u >> \notin g.edges \/ key \in st.seen THEN st
            ELSE IF fwd_amount <= 0 \/ rev_amount <= 0
            THEN [st EXCEPT !.seen = @ \cup { key }]
            ELSE IF 100 * (larger - smaller) <= ROUND_TRIP_TOLERANCE_PCT * larger
            THEN [rings |-> Append(st.rings,
                               [members |-> SortSet(key), pattern |-> "round_trip",
                                forward_amount |-> fwd_amount,
                                reverse_amount |-> rev_amount,
                                similarity |-> RoundHalfEven(1000 * smaller, larger)]),
                  seen |-> st.seen \cup { key }]
            ELSE [st EXCEPT !.seen = @ \cup { key }]

\* edge_order is the order in which G.edges() lists the edges; similarity is
\* in thousandths
detect_round_trips(d, g, edge_order) == RoundTripEdges(d, g, edge_order).rings

(***************************************************************************)
(* anomaly_detector.py, rapid_movement_detector.py, structuring_detector.py *)
(* (analyze never calls them)                                              *)
(***************************************************************************)
\* the accounts of column acc_col with an amount more than
\* AMOUNT_ANOMALY_STDDEV sample standard deviations from their mean:
\* |x - mean| / std > k, squared and scaled by n^2 * (n - 1)
AnomaliesIn(d, acc_col) ==
    { a \in Range(Column(d, acc_col)) :
        LET amounts == Column(Rows(d, acc_col, a), "amount")
            n == Len(amounts)
            total == SeqSum(amounts)
            squares == SeqSum([i \in DOMAIN amounts |-> amounts[i] * amounts[i]])
            spread == n * squares - total * total
        IN /\ n >= MIN_TX_FOR_ANOMALY
           /\ spread > 0
           /\ \E i \in DOMAIN amounts :
                 (n * amounts[i] - total) * (n * amounts[i] - total) * (n - 1)
                     > AMOUNT_ANOMALY_STDDEV * AMOUNT_ANOMALY_STDDEV * n * spread }

detect_amount_anomalies(d) ==
    AnomaliesIn(d, "sender_id") \cup AnomaliesIn(d, "receiver_id")

\* incoming[acc] and outgoing[acc]: the timestamps of the rows of df_sorted
\* that acc receives and sends
InTimes(d, acc) == Column(Rows(SortByTime(d), "receiver_id", acc), "timestamp")

OutTimes(d, acc) == Column(Rows(SortByTime(d), "sender_id", acc), "timestamp")

RECURSIVE AfterOnly_AdvanceJ(_, _, _)
\* while j < len(out_times) and out_times[j] <= in_ts: j += 1
AfterOnly_AdvanceJ(out_times, in_ts, j) ==
    IF j <= Len(out_times) /\ out_times[j] <= in_ts
    THEN AfterOnly_AdvanceJ(out_times, in_ts, j + 1)
    ELSE j

RECURSIVE AdvanceJ(_, _, _)
\* while j < len(out_times) and out_times[j] < in_ts: j += 1  (j counts from 1)
AdvanceJ(out_times, in_ts, j) ==
    IF j <= Len(out_times) /\ out_times[j] < in_ts
    THEN AdvanceJ(out_times, in_ts, j + 1)
    ELSE j

RECURSIVE ScanK(_, _, _, _)
\* the while loop over k; st = [rapid_count, min_dwell], the dwell in seconds
\* and min_dwell = -1 for None
ScanK(out_times, in_ts, k, st) ==
    IF k > Len(out_times) THEN st
    ELSE LET dwell == out_times[k] - in_ts
         IN IF dwell > RAPID_MOVEMENT_MINUTES * 60 THEN st
            ELSE IF dwell >= 0
            THEN ScanK(out_times, in_ts, k + 1,
                       [rapid_count |-> st.rapid_count + 1,
                        min_dwell |-> IF st.min_dwell = -1 \/ dwell < st.min_dwell
                                      THEN dwell ELSE st.min_dwell])
            ELSE ScanK(out_times, in_ts, k + 1, st)

RECURSIVE ScanIn(_, _, _, _, _)
\* for in_ts in in_times, in_ts being in_times[i]; j is shared by the iterations
ScanIn(in_times, out_times, i, j, st) ==
    IF i > Len(in_times) THEN st
    ELSE LET j1 == AdvanceJ(out_times, in_times[i], j)
         IN ScanIn(in_times, out_times, i + 1, j1,
                   ScanK(out_times, in_times[i], j1, st))

\* the dict flagged as a function: acc |-> [min_dwell_minutes, rapid_count],
\* min_dwell_minutes = round(min_dwell, 1) in tenths of a minute (timestamps
\* are whole seconds)
detect_rapid_movements(d) ==
    LET all_accounts == Range(Column(d, "receiver_id")) \cap Range(Column(d, "sender_id"))
        scan == Table([acc \in all_accounts |->
                    ScanIn(InTimes(d, acc), OutTimes(d, acc), 1, 1,
                           [rapid_count |-> 0, min_dwell |-> -1])])
    IN [acc \in { a \in all_accounts :
                    scan[a].rapid_count > 0 /\ scan[a].min_dwell # -1 } |->
           [min_dwell_minutes |-> RoundHalfEven(10 * scan[acc].min_dwell, 60),
            rapid_count |-> scan[acc].rapid_count]]

\* the dict as a function: sender |-> structured_tx_count
detect_structuring(d) ==
    LET in_band(t) ==
            /\ 100 * t.amount >= STRUCTURING_THRESHOLD * (100 - STRUCTURING_MARGIN_PCT)
            /\ t.amount < STRUCTURING_THRESHOLD
        count(a) == Len(SelectSeq(d, LAMBDA t : t.sender_id = a /\ in_band(t)))
    IN [a \in { a \in Range(Column(d, "sender_id")) : count(a) >= STRUCTURING_MIN_TX }
          |-> count(a)]

(***************************************************************************)
(* Input tables                                                            *)
(***************************************************************************)
BaseAmount == 10
HighAmount == 30

\* Small graphs: at most MaxEdges edges of EdgePool, one transaction per edge,
\* one hour apart.  The pool holds the triangle 1 -> 2 -> 3 -> 1 and its
\* reverse, the triangle 1 -> 4 -> 5 -> 1, and 3 -> 4, which closes the
\* four-cycle 1 -> 3 -> 4 -> 5 -> 1 and the five-cycle 1 -> 2 -> 3 -> 4 -> 5 -> 1.
EdgePool ==
    { << 1, 2 >>, << 2, 3 >>, << 3, 1 >>, << 1, 3 >>, << 3, 2 >>, << 2, 1 >>,
      << 1, 4 >>, << 4, 5 >>, << 5, 1 >>, << 3, 4 >> }

RECURSIVE SortEdges(_)
SortEdges(E) ==
    IF E = {} THEN << >>
    ELSE LET e == CHOOSE e \in E : \A f \in E :
                      e[1] < f[1] \/ (e[1] = f[1] /\ e[2] <= f[2])
         IN << e >> \o SortEdges(E \ {e})

TableOfEdges(E) ==
    LET es == SortEdges(E)
    IN [i \in DOMAIN es |-> Tx(es[i][1], es[i][2], BaseAmount, i * SECONDS_PER_HOUR)]

GraphTables ==
    { TableOfEdges(E) :
        E \in { E \in SUBSET EdgePool :
                  Cardinality(E) >= 1 /\ Cardinality(E) <= MaxEdges } }

\* the five-cycle 1 -> 2 -> 3 -> 4 -> 5 -> 1 with the chords 3 -> 1 and 1 -> 4:
\* the triangles 1 -> 2 -> 3 -> 1 and 1 -> 4 -> 5 -> 1 share account 1 only
ChordTables ==
    { TableOfEdges({ << 1, 2 >>, << 2, 3 >>, << 3, 4 >>, << 4, 5 >>, << 5, 1 >>,
                     << 3, 1 >>, << 1, 4 >> }) }

\* A -> B totals 1000 and B -> A totals 1050
RoundTripTables ==
    { << Tx(1, 2, 1000, 0), Tx(2, 1, 1050, SECONDS_PER_HOUR) >> }

\* three transfers from account 1 just below STRUCTURING_THRESHOLD, to three
\* receivers
StructuringTable ==
    [i \in 1..STRUCTURING_MIN_TX |->
        Tx(1, 1 + i, STRUCTURING_THRESHOLD - 1000, i * SECONDS_PER_HOUR)]

\* 1 -> 2, forwarded 2 -> 3 ten minutes later
RapidTable == << Tx(1, 2, BaseAmount, 0), Tx(2, 3, BaseAmount, 600) >>

\* twelve transfers 4 -> 5 on twelve days, the last of ten times the amount
AnomalyTable ==
    [i \in 1..12 |->
        Tx(4, 5, IF i = 12 THEN 10 * BaseAmount ELSE BaseAmount, i * SECONDS_PER_DAY)]

SignalTables == { StructuringTable, RapidTable, AnomalyTable }

\* Fan tables: hubs 1 and 2; spokes 3..FAN_THRESHOLD+1 each with one row at
\* time 0; VarSpokes further spokes whose row is absent or chosen among
\* SpokeOptions.  A row links the spoke and the hub in the table's direction.
FixedSpokes == 3..(FAN_THRESHOLD + 1)

FreeSpokes == (FAN_THRESHOLD + 2)..(FAN_THRESHOLD + 1 + VarSpokes)

\* << timestamp, amount >>; a timestamp of -1 stands for no row
SpokeOptions ==
    << << -1, 0 >>,
       << 0, BaseAmount >>,
       << PAYROLL_BATCH_SECONDS, BaseAmount >>,
       << PAYROLL_BATCH_SECONDS + 1, BaseAmount >>,
       << SMURF_WINDOW_HOURS * SECONDS_PER_HOUR, BaseAmount >>,
       << SMURF_WINDOW_HOURS * SECONDS_PER_HOUR + 1, BaseAmount >>,
       << 0, HighAmount >> >>

\* the free spokes are interchangeable: their options are taken in
\* non-decreasing order
SpokeChoices ==
    { c \in [FreeSpokes -> DOMAIN SpokeOptions] :
        \A a, b \in FreeSpokes : a < b => c[a] <= c[b] }

FanRow(dir, hub, spoke, ts, amt) ==
    IF dir = "in" THEN Tx(spoke, hub, amt, ts) ELSE Tx(hub, spoke, amt, ts)

RECURSIVE FreeRows(_, _, _, _)
FreeRows(dir, hub, c, spokes) ==
    IF spokes = << >> THEN << >>
    ELSE LET k == Head(spokes)
             opt == SpokeOptions[c[k]]
         IN (IF opt[1] < 0 THEN << >> ELSE << FanRow(dir, hub, k, opt[1], opt[2]) >>)
            \o FreeRows(dir, hub, c, Tail(spokes))

HubRows(dir, hub, c) ==
    LET fixed == SortSet(FixedSpokes)
    IN [i \in DOMAIN fixed |-> FanRow(dir, hub, fixed[i], 0, BaseAmount)]
       \o FreeRows(dir, hub, c, SortSet(FreeSpokes))

\* rows that close the triangle 1 -> 3 -> 4 -> 1 over the hub's fan rows
TriangleRows(dir) ==
    IF dir = "in"
    THEN << Tx(1, 3, BaseAmount, 0), Tx(3, 4, BaseAmount, 0) >>
    ELSE << Tx(3, 4, BaseAmount, 0), Tx(4, 1, BaseAmount, 0) >>

FanTables ==
    { HubRows(x[1], 1, x[3])
        \o (IF x[2] = "two_hubs" THEN HubRows(x[1], 2, x[3]) ELSE << >>)
        \o (IF x[2] = "triangle" THEN TriangleRows(x[1]) ELSE << >>) :
      x \in { "in", "out" } \X { "plain", "two_hubs", "triangle" } \X SpokeChoices }

(***************************************************************************)
(* The analyze pipeline (main.py)                                          *)
(***************************************************************************)
NoGraph == [nodes |-> {}, edges |-> {}, tx_count |-> << >>]

NoReport ==
    [suspicious_accounts |-> << >>, fraud_rings |-> << >>,
     summary |-> [total_accounts_analyzed |-> 0,
                  suspicious_accounts_flagged |-> 0,
                  fraud_rings_detected |-> 0]]

InitOn(tables) ==
    /\ df \in tables
    /\ pc = "build_graph"
    /\ G = NoGraph
    /\ cyc_todo = {}
    /\ stop_event = FALSE
    /\ timer_active = FALSE
    /\ timed_out = FALSE
    /\ seen = {}
    /\ cycle_count = 0
    /\ cycle_rings = << >>
    /\ smurf_rings = << >>
    /\ shell_rings = << >>
    /\ all_rings = << >>
    /\ anomaly_accounts = {}
    /\ rapid_accounts = << >>
    /\ structuring_accounts = << >>
    /\ account_scores = << >>
    /\ report = NoReport

\* G = build_graph(df)
BuildGraph ==
    /\ pc = "build_graph"
    /\ G' = build_graph(df)
    /\ pc' = "detect_cycles"
    /\ UNCHANGED <<df, cyc_todo, stop_event, timer_active, timed_out, seen,
                   cycle_count, cycle_rings, smurf_rings, shell_rings, all_rings,
                   anomaly_accounts, rapid_accounts, structuring_accounts,
                   account_scores, report>>

\* detect_cycles up to the loop: the SCC pre-filter, the early return, the
\* start of the timer and of the enumeration
CycleStart ==
    /\ pc = "detect_cycles"
    /\ IF SccNodes(G) = {}
       THEN /\ pc' = "detect_smurfing"
            /\ UNCHANGED <<cyc_todo, timer_active>>
       ELSE /\ cyc_todo' = SimpleCycles(G, SccNodes(G))
            /\ timer_active' = TRUE
            /\ pc' = "cycle_loop"
    /\ UNCHANGED <<df, G, stop_event, timed_out, seen, cycle_count, cycle_rings,
                   smurf_rings, shell_rings, all_rings, anomaly_accounts,
                   rapid_accounts, structuring_accounts, account_scores, report>>

\* the timer thread: _timeout_setter
TimerFire ==
    /\ timer_active
    /\ ~stop_event
    /\ stop_event' = TRUE
    /\ UNCHANGED <<df, pc, G, cyc_todo, timer_active, timed_out, seen,
                   cycle_count, cycle_rings, smurf_rings, shell_rings, all_rings,
                   anomaly_accounts, rapid_accounts, structuring_accounts,
                   account_scores, report>>

\* one iteration of "for cycle in nx.simple_cycles(H)".  The enumerator
\* hands out a circuit it has still to yield, in any rotation; again lets it
\* hand the same circuit out once more later.
CycleNext ==
    /\ pc = "cycle_loop"
    /\ \E c \in cyc_todo, k \in 1..CYCLE_MAX_LEN, again \in BOOLEAN :
        /\ k <= Len(c)
        /\ cyc_todo' = IF again THEN cyc_todo ELSE cyc_todo \ {c}
        /\ LET cycle == Rotate(c, k)
               length == Len(cycle)
               key == _canonical_cycle(cycle)
           IN IF stop_event
              THEN /\ timed_out' = TRUE
                   /\ pc' = "cycle_exit"
                   /\ UNCHANGED <<seen, cycle_rings, cycle_count>>
              ELSE IF cycle_count >= MAX_CYCLES
              THEN /\ pc' = "cycle_exit"
                   /\ UNCHANGED <<timed_out, seen, cycle_rings, cycle_count>>
              ELSE IF length < CYCLE_MIN_LEN \/ length > CYCLE_MAX_LEN \/ key \in seen
              THEN UNCHANGED <<pc, timed_out, seen, cycle_rings, cycle_count>>
              ELSE /\ seen' = seen \cup { key }
                   /\ cycle_rings' = Append(cycle_rings,
                          Ring(key, PatternOfLength(length), 0, << >>))
                   /\ cycle_count' = cycle_count + 1
                   /\ UNCHANGED <<pc, timed_out>>
    /\ UNCHANGED <<df, G, stop_event, timer_active, smurf_rings, shell_rings,
                   all_rings, anomaly_accounts, rapid_accounts,
                   structuring_accounts, account_scores, report>>

\* a return of detect_cycles that leaves the timer running
NoCancel_CycleReturn ==
    /\ pc \in { "cycle_loop", "cycle_exit", "cycle_except" }
    /\ pc = "cycle_loop" => cyc_todo = {}
    /\ pc' = "detect_smurfing"
    /\ UNCHANGED <<df, G, cyc_todo, stop_event, timer_active, timed_out, seen,
                   cycle_count, cycle_rings, smurf_rings, shell_rings, all_rings,
                   anomaly_accounts, rapid_accounts, structuring_accounts,
                   account_scores, report>>

\* the loop is left (break, or the enumerator is exhausted): finally
\* timer.cancel(), return rings
CycleReturn ==
    /\ pc \in { "cycle_loop", "cycle_exit", "cycle_except" }
    /\ pc = "cycle_loop" => cyc_todo = {}
    /\ timer_active' = FALSE
    /\ pc' = "detect_smurfing"
    /\ UNCHANGED <<df, G, cyc_todo, stop_event, timed_out, seen, cycle_count,
                   cycle_rings, smurf_rings, shell_rings, all_rings,
                   anomaly_accounts, rapid_accounts, structuring_accounts,
                   account_scores, report>>

\* smurf_rings = detect_smurfing(df)
DetectSmurfing ==
    /\ pc = "detect_smurfing"
    /\ smurf_rings' = detect_smurfing(df)
    /\ pc' = "detect_shell_networks"
    /\ UNCHANGED <<df, G, cyc_todo, stop_event, timer_active, timed_out, seen,
                   cycle_count, cycle_rings, shell_rings, all_rings,
                   anomaly_accounts, rapid_accounts, structuring_accounts,
                   account_scores, report>>

\* shell_rings = detect_shell_networks(G); G.nodes() lists the candidate
\* sources in the order the account set of build_graph was iterated
DetectShell ==
    /\ pc = "detect_shell_networks"
    /\ \E order \in Perms(CandidateSources(G)) :
          shell_rings' = detect_shell_networks(G, order)
    /\ pc' = "assign_ring_ids"
    /\ UNCHANGED <<df, G, cyc_todo, stop_event, timer_active, timed_out, seen,
                   cycle_count, cycle_rings, smurf_rings, all_rings,
                   anomaly_accounts, rapid_accounts, structuring_accounts,
                   account_scores, report>>

\* all_rings = assign_ring_ids(cycle_rings, smurf_rings, shell_rings, merge=True)
AssignRingIds ==
    /\ pc = "assign_ring_ids"
    /\ all_rings' = assign_ring_ids(cycle_rings, smurf_rings, shell_rings, << >>, TRUE)
    /\ pc' = "calculate_scores"
    /\ UNCHANGED <<df, G, cyc_todo, stop_event, timer_active, timed_out, seen,
                   cycle_count, cycle_rings, smurf_rings, shell_rings,
                   anomaly_accounts, rapid_accounts, structuring_accounts,
                   account_scores, report>>

\* account_scores = calculate_scores(all_rings, df, G); the set of
\* high-velocity accounts is iterated in any order
CalculateScores ==
    /\ pc = "calculate_scores"
    /\ \E vel_order \in Perms(_velocity_accounts(df)) :
          account_scores' =
              calculate_scores(all_rings, df, G, vel_order, << >>, << >>, << >>)
    /\ pc' = "format_output"
    /\ UNCHANGED <<df, G, cyc_todo, stop_event, timer_active, timed_out, seen,
                   cycle_count, cycle_rings, smurf_rings, shell_rings, all_rings,
                   anomaly_accounts, rapid_accounts, structuring_accounts, report>>

\* result = format_output(all_rings, account_scores, G, elapsed, total_accounts, ...)
FormatOutput ==
    /\ pc = "format_output"
    /\ report' = format_output(all_rings, account_scores, Cardinality(Accounts(df)))
    /\ pc' = "done"
    /\ UNCHANGED <<df, G, cyc_todo, stop_event, timer_active, timed_out, seen,
                   cycle_count, cycle_rings, smurf_rings, shell_rings, all_rings,
                   anomaly_accounts, rapid_accounts, structuring_accounts,
                   account_scores>>

Next ==
    \/ BuildGraph
    \/ CycleStart
    \/ TimerFire
    \/ CycleNext
    \/ CycleReturn
    \/ DetectSmurfing
    \/ DetectShell
    \/ AssignRingIds
    \/ CalculateScores
    \/ FormatOutput

\* the engine on the small-graph tables, the chord table, the round-trip
\* table and the three signal tables
Init == InitOn(GraphTables \cup ChordTables \cup RoundTripTables \cup SignalTables)

Spec == Init /\ [][Next]_vars

\* the engine on the fan tables
InitFan == InitOn(FanTables)

SpecFan == InitFan /\ [][Next]_vars

(***************************************************************************)
(* The pipeline with exceptions raised inside the detectors                *)
(***************************************************************************)
\* what each detector call does with an exception raised in its body:
\* detect_cycles has "except Exception" around its loop only; main.py calls
\* the three detectors with no handler of its own, so any other exception
\* leaves analyze and no report is returned
AbortedAt == { "detect_cycles_raised", "detect_smurfing_raised",
               "detect_shell_networks_raised" }

\* an exception in detect_cycles before its try block (the SCC pre-filter, the
\* subgraph view, the start of the timer)
CycleRaise ==
    /\ pc = "detect_cycles"
    /\ pc' = "detect_cycles_raised"
    /\ UNCHANGED <<df, G, cyc_todo, stop_event, timer_active, timed_out, seen,
                   cycle_count, cycle_rings, smurf_rings, shell_rings, all_rings,
                   anomaly_accounts, rapid_accounts, structuring_accounts,
                   account_scores, report>>

\* an exception inside the loop of detect_cycles: except Exception logs it,
\* and the rings appended so far are kept
CycleLoopRaise ==
    /\ pc = "cycle_loop"
    /\ pc' = "cycle_except"
    /\ UNCHANGED <<df, G, cyc_todo, stop_event, timer_active, timed_out, seen,
                   cycle_count, cycle_rings, smurf_rings, shell_rings, all_rings,
                   anomaly_accounts, rapid_accounts, structuring_accounts,
                   account_scores, report>>

\* an exception inside detect_smurfing
SmurfRaise ==
    /\ pc = "detect_smurfing"
    /\ pc' = "detect_smurfing_raised"
    /\ UNCHANGED <<df, G, cyc_todo, stop_event, timer_active, timed_out, seen,
                   cycle_count, cycle_rings, smurf_rings, shell_rings, all_rings,
                   anomaly_accounts, rapid_accounts, structuring_accounts,
                   account_scores, report>>

\* an exception inside detect_shell_networks
ShellRaise ==
    /\ pc = "detect_shell_networks"
    /\ pc' = "detect_shell_networks_raised"
    /\ UNCHANGED <<df, G, cyc_todo, stop_event, timer_active, timed_out, seen,
                   cycle_count, cycle_rings, smurf_rings, shell_rings, all_rings,
                   anomaly_accounts, rapid_accounts, structuring_accounts,
                   account_scores, report>>

NextFaults ==
    \/ BuildGraph
    \/ CycleStart
    \/ TimerFire
    \/ CycleNext
    \/ CycleReturn
    \/ DetectSmurfing
    \/ DetectShell
    \/ AssignRingIds
    \/ CalculateScores
    \/ FormatOutput
    \/ CycleRaise
    \/ CycleLoopRaise
    \/ SmurfRaise
    \/ ShellRaise

SpecFaults == Init /\ [][NextFaults]_vars

(***************************************************************************)
(* detect_shell_networks on layered graphs with a small MAX_SHELL_CHAINS   *)
(***************************************************************************)
\* the value the environment gives MAX_SHELL_CHAINS
ShellCap == 2

\* 1 -> 2 -> 3, two branches 3 -> 4 -> 6 and 3 -> 5 -> 6, and 6 -> 7: every
\* account has at most SHELL_MAX_TX transactions and there is no cycle
ShellPool ==
    { << 1, 2 >>, << 2, 3 >>, << 3, 4 >>, << 3, 5 >>, << 4, 6 >>, << 5, 6 >>,
      << 6, 7 >> }

ShellTables ==
    { TableOfEdges(E) : E \in { E \in SUBSET ShellPool : Cardinality(E) >= 3 } }

InitShell ==
    /\ df \in ShellTables
    /\ pc = "detect_shell_networks_call"
    /\ G = build_graph(df)
    /\ cyc_todo = {}
    /\ stop_event = FALSE
    /\ timer_active = FALSE
    /\ timed_out = FALSE
    /\ seen = {}
    /\ cycle_count = 0
    /\ cycle_rings = << >>
    /\ smurf_rings = << >>
    /\ shell_rings = << >>
    /\ all_rings = << >>
    /\ anomaly_accounts = {}
    /\ rapid_accounts = << >>
    /\ structuring_accounts = << >>
    /\ account_scores = << >>
    /\ report = NoReport

\* shell_rings = detect_shell_networks(G) with MAX_SHELL_CHAINS = ShellCap
DetectShellCall ==
    /\ pc = "detect_shell_networks_call"
    /\ \E order \in Perms(CandidateSources(G)) :
          shell_rings' = ShellNetworks(G, order, ShellCap)
    /\ pc' = "detect_shell_networks_return"
    /\ UNCHANGED <<df, G, cyc_todo, stop_event, timer_active, timed_out, seen,
                   cycle_count, cycle_rings, smurf_rings, all_rings,
                   anomaly_accounts, rapid_accounts, structuring_accounts,
                   account_scores, report>>

NextShell == DetectShellCall

SpecShell == InitShell /\ [][NextShell]_vars

(***************************************************************************)
(* detect_rapid_movements on tables around one pass-through account        *)
(***************************************************************************)
MaxIn == 2              \* rows 1 -> 2 of a rapid table
MaxOut == 2             \* rows 2 -> 3 of a rapid table

\* the instants of the rows: dwell times of 0, 1, RAPID_MOVEMENT_MINUTES - 1,
\* RAPID_MOVEMENT_MINUTES and RAPID_MOVEMENT_MINUTES + 1 minutes occur, and
\* outgoing rows before incoming ones
TimePool ==
    { 0, 60, RAPID_MOVEMENT_MINUTES * 60, (RAPID_MOVEMENT_MINUTES + 1) * 60 }

\* up to MaxIn rows 1 -> 2 and up to MaxOut rows 2 -> 3 at instants of
\* TimePool, in any order of time, with or without a row 3 -> 4
RapidTables ==
    UNION { { [i \in 1..n |-> Tx(1, 2, BaseAmount, ins[i])]
                \o [i \in 1..m |-> Tx(2, 3, BaseAmount, outs[i])]
                \o (IF fwd THEN << Tx(3, 4, BaseAmount, 60) >> ELSE << >>) :
              ins \in [1..n -> TimePool], outs \in [1..m -> TimePool],
              fwd \in BOOLEAN } :
            n \in 1..MaxIn, m \in 1..MaxOut }

InitRapid ==
    /\ df \in RapidTables
    /\ pc = "detect_rapid_movements_call"
    /\ G = build_graph(df)
    /\ cyc_todo = {}
    /\ stop_event = FALSE
    /\ timer_active = FALSE
    /\ timed_out = FALSE
    /\ seen = {}
    /\ cycle_count = 0
    /\ cycle_rings = << >>
    /\ smurf_rings = << >>
    /\ shell_rings = << >>
    /\ all_rings = << >>
    /\ anomaly_accounts = {}
    /\ rapid_accounts = << >>
    /\ structuring_accounts = << >>
    /\ account_scores = << >>
    /\ report = NoReport

\* rapid_accounts = detect_rapid_movements(df): the items of the dict, in
\* the order in which the set all_accounts was iterated
DetectRapidCall ==
    /\ pc = "detect_rapid_movements_call"
    /\ LET flagged == detect_rapid_movements(df)
       IN \E order \in Perms(DOMAIN flagged) :
             rapid_accounts' =
                 [i \in DOMAIN order |->
                     [acc |-> order[i],
                      min_dwell_minutes |-> flagged[order[i]].min_dwell_minutes,
                      rapid_count |-> flagged[order[i]].rapid_count]]
    /\ pc' = "detect_rapid_movements_return"
    /\ UNCHANGED <<df, G, cyc_todo, stop_event, timer_active, timed_out, seen,
                   cycle_count, cycle_rings, smurf_rings, shell_rings, all_rings,
                   anomaly_accounts, structuring_accounts, account_scores, report>>

NextRapid == DetectRapidCall

SpecRapid == InitRapid /\ [][NextRapid]_vars

(***************************************************************************)
(* calculate_scores and format_output on arbitrary ring lists and signals  *)
(***************************************************************************)
\* the rings a list is drawn from
ScoringRings ==
    { Ring(<< 1, 2, 3 >>, "cycle_length_3", 0, << >>),
      Ring(<< 1, 2, 3, 4 >>, "cycle_length_4", 0, << >>),
      Ring(<< 2, 3, 4, 1 >>, "fan_in", 1, << >>),
      Ring(<< 2, 3, 4 >>, "shell_chain", 0, << 3 >>),
      Ring(<< 1, 2 >>, "round_trip", 0, << >>) }

\* lists of at most MaxRings different rings, in every order
ScoringRingLists ==
    UNION { { rs \in [1..n -> ScoringRings] :
                \A i, j \in 1..n : i # j => rs[i] # rs[j] } : n \in 0..MaxRings }

\* a chain 1 -> 2 -> 3 -> 4 over a week, and six transfers 1 -> 2 and one
\* 2 -> 3 within a day
ScoringTables ==
    { << Tx(1, 2, BaseAmount, 0), Tx(2, 3, BaseAmount, SECONDS_PER_DAY),
         Tx(3, 4, BaseAmount, 7 * SECONDS_PER_DAY) >>,
      [i \in 1..6 |-> Tx(1, 2, BaseAmount, i * SECONDS_PER_HOUR)]
          \o << Tx(2, 3, BaseAmount, 7 * SECONDS_PER_HOUR) >> }

\* accounts 1 (a ring member) and 5 (in no ring, in no table)
ScoringAnomalySets == { {}, { 1 }, { 1, 5 } }

ScoringRapidDicts ==
    { << >>, << [acc |-> 1] >>, << [acc |-> 5], [acc |-> 1] >> }

ScoringStructuringDicts ==
    { << >>,
      << [acc |-> 1, structured_tx_count |-> 3] >>,
      << [acc |-> 5, structured_tx_count |-> 3],
         [acc |-> 1, structured_tx_count |-> 4] >> }

InitScoring ==
    /\ df \in ScoringTables
    /\ pc = "calculate_scores_call"
    /\ G = build_graph(df)
    /\ cyc_todo = {}
    /\ stop_event = FALSE
    /\ timer_active = FALSE
    /\ timed_out = FALSE
    /\ seen = {}
    /\ cycle_count = 0
    /\ cycle_rings = << >>
    /\ smurf_rings = << >>
    /\ shell_rings = << >>
    /\ \E rs \in ScoringRingLists :
          all_rings = assign_ring_ids(rs, << >>, << >>, << >>, FALSE)
    /\ anomaly_accounts \in ScoringAnomalySets
    /\ rapid_accounts \in ScoringRapidDicts
    /\ structuring_accounts \in ScoringStructuringDicts
    /\ account_scores = << >>
    /\ report = NoReport

\* calculate_scores(rings, df, G, anomaly_accounts, rapid_accounts,
\* structuring_accounts) with every optional argument given; the two sets are
\* iterated in any order
CalculateScoresCall ==
    /\ pc = "calculate_scores_call"
    /\ \E vel_order \in Perms(_velocity_accounts(df)),
          anomaly_order \in Perms(anomaly_accounts) :
          account_scores' =
              calculate_scores(all_rings, df, G, vel_order, anomaly_order,
                               rapid_accounts, structuring_accounts)
    /\ pc' = "format_output"
    /\ UNCHANGED <<df, G, cyc_todo, stop_event, timer_active, timed_out, seen,
                   cycle_count, cycle_rings, smurf_rings, shell_rings, all_rings,
                   anomaly_accounts, rapid_accounts, structuring_accounts, report>>

NextScoring ==
    \/ CalculateScoresCall
    \/ FormatOutput

SpecScoring == InitScoring /\ [][NextScoring]_vars

(***************************************************************************)
(* analyze as a function of the table and of the iteration orders          *)
(***************************************************************************)
\* the circuits of length CYCLE_MIN_LEN..CYCLE_MAX_LEN that detect_cycles is
\* handed when nothing stops the loop
QualifyingCycles(g) ==
    { c \in SimpleCycles(g, SccNodes(g)) :
        Len(c) >= CYCLE_MIN_LEN /\ Len(c) <= CYCLE_MAX_LEN }

\* the report of the run of analyze on d in which the circuits are
\* enumerated in cycle_order, G.nodes() lists the candidate sources in
\* shell_order and the high-velocity set is iterated in vel_order
analyze(d, cycle_order, shell_order, vel_order) ==
    LET g == build_graph(d)
        cycle_rs == [i \in DOMAIN cycle_order |->
                        Ring(_canonical_cycle(cycle_order[i]),
                             PatternOfLength(Len(cycle_order[i])), 0, << >>)]
        rings == assign_ring_ids(cycle_rs, detect_smurfing(d),
                                 detect_shell_networks(g, shell_order), << >>, TRUE)
        scores == calculate_scores(rings, d, g, vel_order, << >>, << >>, << >>)
    IN format_output(rings, scores, Cardinality(Accounts(d)))

\* one run with fixed iteration orders
ReferenceRun(d) ==
    LET g == build_graph(d)
    IN analyze(d,
               CHOOSE o \in Perms(QualifyingCycles(g)) : TRUE,
               SortSet(CandidateSources(g)),
               SortSet(_velocity_accounts(d)))

(***************************************************************************)
(* Properties                                                              *)
(***************************************************************************)
\* C1: every score in the map returned by calculate_scores, and so every
\* suspicion_score of the report, lies between 0 and 100, whatever the rings
\* and the velocity, centrality, anomaly, rapid-movement and structuring
\* signals are.
C1_ScoreInRange ==
    /\ \A i \in DOMAIN account_scores :
          /\ account_scores[i].score >= 0
          /\ account_scores[i].score <= Tenths(100)
    /\ \A i \in DOMAIN report.suspicious_accounts :
          /\ report.suspicious_accounts[i].suspicion_score >= 0
          /\ report.suspicious_accounts[i].suspicion_score <= Tenths(100)

\* an account whose contributions add up to more than 100 points
\* (35 + 30 + 28 + 2 * 10 + 20) is reported with a score of 100
C1_CappedAccount ==
    /\ pc = "done"
    /\ \E i \in DOMAIN report.suspicious_accounts :
          /\ report.suspicious_accounts[i].suspicion_score = Tenths(100)
          /\ \A p \in { "cycle_length_3", "cycle_length_4", "fan_in",
                         "multi_ring", "amount_anomaly" } :
                \E k \in DOMAIN report.suspicious_accounts[i].detected_patterns :
                    report.suspicious_accounts[i].detected_patterns[k] = p

\* C2: in the report of format_output, suspicious_accounts is in
\* non-increasing order of suspicion_score and fraud_rings in non-increasing
\* order of risk_score, whatever order the rings and the scores came in.
C2_ReportSorted ==
    /\ \A i, j \in DOMAIN report.suspicious_accounts :
          i < j => report.suspicious_accounts[i].suspicion_score
                       >= report.suspicious_accounts[j].suspicion_score
    /\ \A i, j \in DOMAIN report.fraud_rings :
          i < j => report.fraud_rings[i].risk_score >= report.fraud_rings[j].risk_score

\* a report built from rings and from scores that both came in an order that
\* is not the report's
C2_ReorderedReport ==
    /\ pc = "done"
    /\ \E i, j \in DOMAIN account_scores :
          i < j /\ 0 < account_scores[i].score
                /\ account_scores[i].score < account_scores[j].score
    /\ \E i, j \in DOMAIN all_rings :
          i < j /\ _risk_score(all_rings[i]) < _risk_score(all_rings[j])

\* C3: a run of the engine in which cycle detection does not time out ends
\* with the same report (rings, ring ids, order of the rings and of the
\* suspicious accounts) as every other such run on the same table, whatever
\* the iteration order of the sets used internally: it ends with the report
\* of the reference run.
C3_SameReport ==
    (pc = "done" /\ ~timed_out) => report = ReferenceRun(df)

\* a finished run on a table with two circuits that are not merged
C3_TwoRingsReported ==
    /\ pc = "done"
    /\ ~timed_out
    /\ \E i, j \in DOMAIN report.fraud_rings :
          /\ i # j
          /\ report.fraud_rings[i].pattern_type = "cycle_length_3"
          /\ report.fraud_rings[j].pattern_type = "cycle_length_3"

\* the simple directed cycles of g with CYCLE_MIN_LEN..CYCLE_MAX_LEN accounts,
\* each written from its smallest account: an edge from every account to the
\* next and from the last to the first, no account twice
DirectedCycles(g) ==
    UNION { { c \in [1..L -> g.nodes] :
                /\ \A i, j \in 1..L : i # j => c[i] # c[j]
                /\ \A i \in 1..L : << c[i], c[(i % L) + 1] >> \in g.edges
                /\ \A i \in 1..L : c[1] <= c[i] } :
            L \in CYCLE_MIN_LEN..CYCLE_MAX_LEN }

\* the labels the report gives account a; none when a is not reported
ReportedPatterns(a) ==
    UNION { Range(report.suspicious_accounts[i].detected_patterns) :
              i \in { i \in DOMAIN report.suspicious_accounts :
                        report.suspicious_accounts[i].account_id = a } }

ReportedAccounts ==
    { report.suspicious_accounts[i].account_id : i \in DOMAIN report.suspicious_accounts }

C5_CycleRingIsCycle ==
    \A i \in DOMAIN all_rings : \A L \in CYCLE_MIN_LEN..CYCLE_MAX_LEN :
        all_rings[i].pattern = PatternOfLength(L) =>
            LET m == all_rings[i].members
            IN /\ Len(m) = L
               /\ \A j, k \in 1..L : j # k => m[j] # m[k]
               /\ \A j \in 1..L : << m[j], m[(j % L) + 1] >> \in G.edges
               /\ \A j \in 1..L : m[1] <= m[j]

\* the final ring list holds one ring, of a triangle that is the only cycle
\* of G, and the members are not listed in the order of the cycle
C5_SortedTriangle ==
    /\ pc = "done"
    /\ Cardinality(DirectedCycles(G)) = 1
    /\ Len(all_rings) = 1
    /\ all_rings[1].pattern = "cycle_length_3"
    /\ Len(all_rings[1].members) = 3
    /\ << all_rings[1].members[1], all_rings[1].members[2] >> \notin G.edges

CounterpartiesIn(d, hub_col, cp_col, hub, t) ==
    { d[i][cp_col] :
        i \in { i \in DOMAIN d : /\ d[i][hub_col] = hub
                                 /\ d[i][cp_col] # hub
                                 /\ d[i].timestamp >= t
                                 /\ d[i].timestamp <= t + WindowTd } }

\* some window of SMURF_WINDOW_HOURS holds rows between hub and at least
\* FAN_THRESHOLD different counterparties
HasFanWindow(d, hub_col, cp_col, hub) ==
    \E i \in DOMAIN d :
        Cardinality(CounterpartiesIn(d, hub_col, cp_col, hub, d[i].timestamp))
            >= FAN_THRESHOLD

\* receiver h has at least 2 incoming amounts and their coefficient of
\* variation (population standard deviation over mean) exceeds
\* MERCHANT_CV_NUM / MERCHANT_CV_DEN
IsMerchant(d, h) ==
    LET amounts == Column(Rows(d, "receiver_id", h), "amount")
        n == Len(amounts)
        total == SeqSum(amounts)
        deviations == SeqSum([i \in DOMAIN amounts |->
                                (n * amounts[i] - total) * (n * amounts[i] - total)])
    IN /\ n >= 2
       /\ total # 0
       /\ MERCHANT_CV_DEN * MERCHANT_CV_DEN * deviations
              > MERCHANT_CV_NUM * MERCHANT_CV_NUM * n * total * total

\* sender s has at least 2 outgoing transactions and no two of them are more
\* than PAYROLL_BATCH_SECONDS apart
IsPayroll(d, s) ==
    LET out == { i \in DOMAIN d : d[i].sender_id = s }
    IN /\ Cardinality(out) >= 2
       /\ \A i, j \in out : d[i].timestamp - d[j].timestamp <= PAYROLL_BATCH_SECONDS

\* C7: for every ring of the final ring list with pattern fan_in and hub h,
\* some window of at most SMURF_WINDOW_HOURS holds transactions to h from at
\* least FAN_THRESHOLD different senders other than h, also when the ring was
\* formed by merging several rings.
C7_FanInWindow ==
    \A i \in DOMAIN all_rings :
        all_rings[i].pattern = "fan_in" =>
            HasFanWindow(df, "receiver_id", "sender_id", all_rings[i].hub)

\* a final fan_in ring that was merged from the rings of the two hubs
C7_MergedFanIn ==
    /\ pc = "done"
    /\ \E i \in DOMAIN all_rings :
          /\ all_rings[i].pattern = "fan_in"
          /\ { 1, 2 } \subseteq Range(all_rings[i].members)

\* the table of the scenario: every row goes to h, from 12 different
\* senders, one row each, all within 2 hours, and h is no merchant
TwelveSenders(d, h) ==
    /\ \A i \in DOMAIN d : d[i].receiver_id = h /\ d[i].sender_id # h
    /\ Len(d) = 12
    /\ \A i, j \in DOMAIN d :
          /\ i # j => d[i].sender_id # d[j].sender_id
          /\ d[i].timestamp - d[j].timestamp <= 2 * SECONDS_PER_HOUR
    /\ ~IsMerchant(d, h)

\* C8: when a receiver H that is no merchant receives one transaction from
\* each of 12 different senders within 2 hours, the engine emits exactly one
\* fan_in ring, with hub H and as members H and all 12 senders (13 members);
\* only H is labelled fan_in and H's score includes the 28 points of fan_in.
C8_ThirteenMembers ==
    (pc = "done" /\ TwelveSenders(df, 1)) =>
        LET fan_in == { i \in DOMAIN all_rings : all_rings[i].pattern = "fan_in" }
        IN /\ Cardinality(fan_in) = 1
           /\ \A i \in fan_in :
                 /\ all_rings[i].hub = 1
                 /\ Len(all_rings[i].members) = 13
                 /\ Range(all_rings[i].members) = Accounts(df)
           /\ \A a \in Accounts(df) : "fan_in" \in ReportedPatterns(a) <=> a = 1
           /\ \E i \in DOMAIN report.suspicious_accounts :
                 /\ report.suspicious_accounts[i].account_id = 1
                 /\ report.suspicious_accounts[i].suspicion_score
                        >= Tenths(SCORE_FAN_IN)

\* the run on the table of the scenario has ended with a fan_in ring of
\* fewer than 13 members
C8_ElevenMembers ==
    /\ pc = "done"
    /\ TwelveSenders(df, 1)
    /\ \E i \in DOMAIN all_rings :
          /\ all_rings[i].pattern = "fan_in"
          /\ all_rings[i].hub = 1
          /\ Len(all_rings[i].members) = FAN_THRESHOLD + 1

\* C9: a sender that sends to at least FAN_THRESHOLD different receivers
\* within one window of SMURF_WINDOW_HOURS is a member of a fan_out ring of
\* fraud_rings and is listed in suspicious_accounts.
C9_FanOutReported ==
    pc = "done" =>
        \A s \in Accounts(df) :
            HasFanWindow(df, "sender_id", "receiver_id", s) =>
                /\ \E i \in DOMAIN report.fraud_rings :
                      /\ report.fraud_rings[i].pattern_type = "fan_out"
                      /\ s \in Range(report.fraud_rings[i].member_accounts)
                /\ s \in ReportedAccounts

\* the run on a table in which account 1 sends to 12 different receivers,
\* all at one timestamp, and nothing else happens, has ended without a
\* fan_out ring
C9_BatchSenderNoRing ==
    /\ pc = "done"
    /\ Len(df) = 12
    /\ \A i, j \in DOMAIN df :
          /\ df[i].sender_id = 1
          /\ df[i].timestamp = df[j].timestamp
          /\ i # j => df[i].receiver_id # df[j].receiver_id
    /\ report.fraud_rings = << >>

OnDirectedCycle(g, a) ==
    \E u \in g.nodes \ { a } :
        /\ u \in ReachFrom(g.edges, { a }, { a })
        /\ a \in ReachFrom(g.edges, { u }, { u })

\* a is a pass-through shell of the table d
PassThroughShell(d, g, a) ==
    /\ Cardinality({ i \in DOMAIN d : d[i].sender_id = a \/ d[i].receiver_id = a })
          <= SHELL_MAX_TX
    /\ \E i \in DOMAIN d : d[i].receiver_id = a
    /\ \E i \in DOMAIN d : d[i].sender_id = a

ShellChainTable == EdgesOf(df) = { << 1, 2 >>, << 2, 3 >>, << 3, 4 >> } /\ Len(df) = 3

\* the entries calculate_scores returned for account a
ScoresOf(a) ==
    { account_scores[i] : i \in { i \in DOMAIN account_scores :
                                    account_scores[i].acc = a } }

\* C12: for the chain S -> X -> Y -> D the engine emits one shell_chain ring
\* with members [X, Y]; X and Y receive the full shell_chain score and the
\* label, and the entry S and the exit D are each scored half of it (11) with
\* no shell_chain label.
C12_EntryExitHalf ==
    (pc = "done" /\ ShellChainTable) =>
        /\ Len(all_rings) = 1
        /\ all_rings[1].pattern = "shell_chain"
        /\ all_rings[1].members = << 2, 3 >>
        /\ \A a \in { 2, 3 } : \E e \in ScoresOf(a) :
              /\ e.score >= Tenths(SCORE_SHELL)
              /\ "shell_chain" \in Range(e.patterns)
        /\ \A a \in { 1, 4 } : \E e \in ScoresOf(a) :
              /\ e.score = Tenths(SCORE_SHELL) \div 2
              /\ "shell_chain" \notin Range(e.patterns)

\* the chain has been analysed: the ring is [X, Y], X and Y carry the label,
\* and neither S nor D has an entry in the scores or in the report
C12_EntryExitUnscored ==
    /\ pc = "done"
    /\ ShellChainTable
    /\ Len(all_rings) = 1
    /\ all_rings[1].members = << 2, 3 >>
    /\ \A a \in { 2, 3 } : \E e \in ScoresOf(a) : "shell_chain" \in Range(e.patterns)
    /\ ScoresOf(1) = {} /\ ScoresOf(4) = {}
    /\ ReportedAccounts = { 2, 3 }

\* the points that the labels of entry e stand for, apart from ring patterns
\* and centrality
BonusOfLabels(e) ==
    (IF "high_velocity" \in Range(e.patterns) THEN Tenths(SCORE_HIGH_VELOCITY) ELSE 0)
    + (IF "amount_anomaly" \in Range(e.patterns) THEN Tenths(SCORE_AMOUNT_ANOMALY) ELSE 0)
    + (IF "rapid_movement" \in Range(e.patterns) THEN Tenths(SCORE_RAPID_MOVEMENT) ELSE 0)
    + (IF "structuring" \in Range(e.patterns) THEN Tenths(SCORE_STRUCTURING) ELSE 0)

\* the rings of all_rings that list account a
RingsOf(a) == { i \in DOMAIN all_rings : a \in Range(all_rings[i].members) }

FanPatterns == { "fan_in", "fan_out" }

\* C13: for every fan_in or fan_out ring, calculate_scores gives the pattern
\* score and the fan label to the hub only; every other member has the
\* ring_id in its ring_ids, carries a fan label only if it is the hub of some
\* ring of that pattern, and, when this ring is its only ring, has no ring
\* label and a score made of the non-ring bonuses alone.
C13_OnlyHubScored ==
    pc \in { "format_output", "done" } =>
        \A i \in DOMAIN all_rings : all_rings[i].pattern \in FanPatterns =>
            /\ \E e \in ScoresOf(all_rings[i].hub) :
                  /\ all_rings[i].pattern \in Range(e.patterns)
                  /\ e.score >= Tenths(SCORE_FAN_IN) \/ e.score = Tenths(100)
            /\ \A a \in Range(all_rings[i].members) \ { all_rings[i].hub } :
                  \E e \in ScoresOf(a) :
                      /\ all_rings[i].ring_id \in Range(e.ring_ids)
                      /\ \A p \in FanPatterns \cap Range(e.patterns) :
                            \E j \in DOMAIN all_rings :
                                all_rings[j].pattern = p /\ all_rings[j].hub = a
                      /\ RingsOf(a) = { i } =>
                            /\ Range(e.patterns) \subseteq
                                  { "high_velocity", "amount_anomaly",
                                    "rapid_movement", "structuring" }
                            /\ e.score >= BonusOfLabels(e)
                            /\ e.score <= BonusOfLabels(e) + Tenths(SCORE_CENTRALITY_MAX)

\* a spoke whose only ring is a fan ring has been scored: it has the ring_id,
\* the label high_velocity and no fan label, while the hub has the label
C13_SpokeWithBonus ==
    /\ pc = "format_output"
    /\ \E i \in DOMAIN all_rings :
          /\ all_rings[i].pattern = "fan_in"
          /\ \E a \in Range(all_rings[i].members) \ { all_rings[i].hub } :
                /\ RingsOf(a) = { i }
                /\ \E e \in ScoresOf(a) :
                      /\ e.ring_ids = << all_rings[i].ring_id >>
                      /\ "high_velocity" \in Range(e.patterns)
                      /\ "fan_in" \notin Range(e.patterns)
          /\ \E e \in ScoresOf(all_rings[i].hub) : "fan_in" \in Range(e.patterns)

\* the accounts u < v send to each other and the two totals differ by at most
\* ROUND_TRIP_AMOUNT_TOLERANCE of the larger one
RoundTripPair(d, u, v) ==
    LET fwd == EdgeTotal(d, u, v)
        rev == EdgeTotal(d, v, u)
    IN /\ u < v /\ fwd > 0 /\ rev > 0
       /\ 100 * (fwd - rev) <= ROUND_TRIP_TOLERANCE_PCT * fwd
       /\ 100 * (rev - fwd) <= ROUND_TRIP_TOLERANCE_PCT * rev

\* C14: the report of the engine has one round_trip ring for every pair of
\* accounts with edges in both directions whose totals are within the
\* tolerance; for A -> B of 1000 and B -> A of 1050 it has exactly one
\* round_trip ring, with members [A, B].
C14_RoundTripReported ==
    pc = "done" =>
        \A u, v \in Accounts(df) : RoundTripPair(df, u, v) =>
            \E i \in DOMAIN report.fraud_rings :
                /\ report.fraud_rings[i].pattern_type = "round_trip"
                /\ report.fraud_rings[i].member_accounts = << u, v >>

\* the table A -> B 1000, B -> A 1050 has been analysed: detect_round_trips
\* would return the ring [A, B] with similarity 0.952, and the report has no
\* ring and no suspicious account
C14_RoundTripMissing ==
    /\ pc = "done"
    /\ df \in RoundTripTables
    /\ \A order \in Perms(G.edges) :
          LET rings == detect_round_trips(df, G, order)
          IN /\ Len(rings) = 1
             /\ rings[1].members = << 1, 2 >>
             /\ rings[1].similarity = 952
    /\ report.fraud_rings = << >>
    /\ report.suspicious_accounts = << >>

\* the report lists account a with a score of at least points and the label
ReportedWith(a, points, label) ==
    \E i \in DOMAIN report.suspicious_accounts :
        /\ report.suspicious_accounts[i].account_id = a
        /\ report.suspicious_accounts[i].suspicion_score >= Tenths(points)
        /\ label \in Range(report.suspicious_accounts[i].detected_patterns)

\* C15: every account that detect_amount_anomalies, detect_rapid_movements
\* or detect_structuring flags on the input table is reported by the engine
\* with +20, +20 and +15 points and the label amount_anomaly, rapid_movement
\* or structuring.
C15_SignalsReported ==
    pc = "done" =>
        /\ \A a \in detect_amount_anomalies(df) :
              ReportedWith(a, SCORE_AMOUNT_ANOMALY, "amount_anomaly")
        /\ \A a \in DOMAIN detect_rapid_movements(df) :
              ReportedWith(a, SCORE_RAPID_MOVEMENT, "rapid_movement")
        /\ \A a \in DOMAIN detect_structuring(df) :
              ReportedWith(a, SCORE_STRUCTURING, "structuring")

\* a table on which one of the three detectors flags an account has been
\* analysed, and the report lists no account
C15_SignalsDropped ==
    /\ pc = "done"
    /\ \/ df = AnomalyTable /\ detect_amount_anomalies(df) = { 4, 5 }
       \/ df = RapidTable /\ DOMAIN detect_rapid_movements(df) = { 2 }
       \/ df = StructuringTable /\ DOMAIN detect_structuring(df) = { 1 }
    /\ anomaly_accounts = {} /\ rapid_accounts = << >> /\ structuring_accounts = << >>
    /\ report.suspicious_accounts = << >>

\* |A /\ B| / min(|A|, |B|) >= 0.5 for the member lists of two rings
OverlapAtLeastHalf(ring_a, ring_b) ==
    LET A == Range(ring_a.members)
        B == Range(ring_b.members)
    IN /\ A # {} /\ B # {}
       /\ 2 * Cardinality(A \cap B) >= Cardinality(A)
          \/ 2 * Cardinality(A \cap B) >= Cardinality(B)

\* the concatenated detector output handed to _merge_rings
DetectorRings == cycle_rings \o smurf_rings \o shell_rings

\* the position of the ring whose turn of the outer loop of _merge_rings
\* takes rings[j]: j itself when no earlier turn absorbed it
SeedOf(rings) ==
    LET seed[j \in DOMAIN rings] ==
            LET takers == { i \in 1..(j - 1) :
                              seed[i] = i /\ _should_merge(rings[i], rings[j]) }
            IN IF takers = {} THEN j ELSE SetMin(takers)
    IN seed

\* C16: any two rings of the concatenated detector output that overlap in at
\* least half of the smaller one are placed in the same merged ring, whatever
\* other rings are present and whatever their order.
C16_OverlappingMerged ==
    pc \in { "calculate_scores", "format_output", "done" } =>
        \A i, j \in DOMAIN DetectorRings :
            OverlapAtLeastHalf(DetectorRings[i], DetectorRings[j]) =>
                SeedOf(DetectorRings)[i] = SeedOf(DetectorRings)[j]

\* the rings are merged, one merged ring per seed, and two detector rings
\* that overlap in at least half of the smaller one went to different merged
\* rings
C16_OverlappingApart ==
    /\ pc = "done"
    /\ Len(all_rings) = Cardinality(Range(SeedOf(DetectorRings)))
    /\ \A i \in DOMAIN DetectorRings :
          \E k \in DOMAIN all_rings :
              /\ Range(DetectorRings[i].members) \subseteq Range(all_rings[k].members)
              /\ k = Cardinality({ m \in Range(SeedOf(DetectorRings)) :
                                     m <= SeedOf(DetectorRings)[i] })
    /\ \E i, j \in DOMAIN DetectorRings :
          /\ OverlapAtLeastHalf(DetectorRings[i], DetectorRings[j])
          /\ SeedOf(DetectorRings)[i] # SeedOf(DetectorRings)[j]

\* the number that the digits of a ring id spell
IdNumber(ds) ==
    LET value[k \in 0..Len(ds)] == IF k = 0 THEN 0 ELSE 10 * value[k - 1] + ds[k]
    IN value[Len(ds)]

\* C17: the k-th ring of the final list has the id RING_ followed by k
\* zero-padded to three digits: the ids are unique and consecutive from
\* RING_001, as many as there are merged rings, and the list is a function of
\* the concatenation cycles, smurf, shell alone.
C17_ConsecutiveIds ==
    pc \in { "calculate_scores", "format_output", "done" } =>
        /\ \A k \in DOMAIN all_rings :
              /\ Len(all_rings[k].ring_id) = 3
              /\ \A n \in DOMAIN all_rings[k].ring_id : all_rings[k].ring_id[n] \in 0..9
              /\ IdNumber(all_rings[k].ring_id) = k
        /\ \A k, l \in DOMAIN all_rings :
              all_rings[k].ring_id = all_rings[l].ring_id => k = l
        /\ Len(all_rings) = Cardinality(Range(SeedOf(DetectorRings)))
        /\ all_rings = assign_ring_ids(cycle_rings, smurf_rings, shell_rings, << >>, TRUE)

\* three detector rings were merged into two, which carry RING_001 and RING_002
C17_TwoIds ==
    /\ pc = "done"
    /\ Len(DetectorRings) = 3
    /\ Len(all_rings) = 2
    /\ all_rings[1].ring_id = << 0, 0, 1 >>
    /\ all_rings[2].ring_id = << 0, 0, 2 >>

\* C18: no account whose final score is below MIN_SUSPICION_SCORE appears in
\* suspicious_accounts (it may still be a member of a fraud ring).
C18_BelowMinimumHidden ==
    pc = "done" =>
        \A i \in DOMAIN report.suspicious_accounts :
            report.suspicious_accounts[i].suspicion_score >= Tenths(MIN_SUSPICION_SCORE)

\* the report lists an account whose score is positive and below
\* MIN_SUSPICION_SCORE
C18_LowScoreListed ==
    /\ pc = "done"
    /\ \E i \in DOMAIN report.suspicious_accounts :
          /\ report.suspicious_accounts[i].suspicion_score > 0
          /\ report.suspicious_accounts[i].suspicion_score < Tenths(MIN_SUSPICION_SCORE)
          /\ \E e \in ScoresOf(report.suspicious_accounts[i].account_id) :
                e.score = report.suspicious_accounts[i].suspicion_score

\* C19: calculate_scores gives an empty risk_explanation to every account
\* whose final list of patterns is empty, fan spokes and other accounts with
\* ring memberships included.
C19_NoPatternNoExplanation ==
    pc \in { "format_output", "done" } =>
        \A i \in DOMAIN account_scores :
            account_scores[i].patterns = << >> =>
                account_scores[i].risk_explanation = << >>

\* a spoke of a fan_in ring has been scored: it has no pattern, a score of 0
\* and the explanation "Member of RING_001"
C19_SpokeExplained ==
    /\ pc = "format_output"
    /\ \E k \in DOMAIN all_rings :
          /\ all_rings[k].pattern = "fan_in"
          /\ \E a \in Range(all_rings[k].members) \ { all_rings[k].hub } :
                \E e \in ScoresOf(a) :
                    /\ e.patterns = << >>
                    /\ e.score = 0
                    /\ e.ring_ids = << all_rings[k].ring_id >>
                    /\ e.risk_explanation = << "member_of_ring" >>

\* the positions in the detector output of the rings that went into the
\* k-th merged ring
SourcesOf(k) ==
    LET seeds == Range(SeedOf(DetectorRings))
        seed == CHOOSE m \in seeds : Cardinality({ n \in seeds : n <= m }) = k
    IN { j \in DOMAIN DetectorRings : SeedOf(DetectorRings)[j] = seed }

\* C20: a ring of the final list that absorbed other rings lists the sorted
\* duplicate-free union of the members of its detector rings; a ring that
\* absorbed none lists exactly the detector's canonical list (a cycle from its
\* smallest account in cycle order, a fan_in as the sorted senders followed by
\* the hub, a fan_out as the hub followed by the sorted receivers).
C20_CanonicalMembers ==
    pc \in { "calculate_scores", "format_output", "done" } =>
        \A k \in DOMAIN all_rings :
            IF Cardinality(SourcesOf(k)) > 1
            THEN all_rings[k].members =
                     SortSet(UNION { Range(DetectorRings[j].members) : j \in SourcesOf(k) })
            ELSE \A j \in SourcesOf(k) : all_rings[k].members = DetectorRings[j].members

\* a fan_in ring that absorbed no ring is in the final list with the hub
\* first, while detect_smurfing returned it with the hub last
C20_FanInResorted ==
    /\ pc = "done"
    /\ \E k \in DOMAIN all_rings :
          /\ all_rings[k].pattern = "fan_in"
          /\ \E j \in DOMAIN DetectorRings :
                /\ SourcesOf(k) = { j }
                /\ DetectorRings[j].members[Len(DetectorRings[j].members)] = all_rings[k].hub
                /\ all_rings[k].members[1] = all_rings[k].hub
                /\ all_rings[k].members = SortSet(Range(DetectorRings[j].members))
                /\ all_rings[k].members # DetectorRings[j].members

(***************************************************************************)
(* C21: once a table is accepted, an exception raised inside a detector    *)
(* (cycle, smurf, shell) never leaves the pipeline: analyze is never       *)
(* aborted by a detector and goes on to return a report.                   *)
(***************************************************************************)
C21_DetectorErrorsContained == pc \notin AbortedAt

\* the one contained case: an exception inside the loop of detect_cycles is
\* caught with a ring already appended
C21_CycleLoopErrorCaught ==
    /\ pc = "cycle_except"
    /\ cycle_rings # << >>
    /\ timer_active

(***************************************************************************)
(* C22: in every interleaving of the timer thread with the enumeration     *)
(* loop, once the timer has set the stop flag detect_cycles returns with   *)
(* the rings appended so far: each is a simple directed cycle of G of      *)
(* length 3 to 5 written from its smallest account and labelled with its   *)
(* length, no cycle is listed twice, there are at most MAX_CYCLES rings,   *)
(* and the timer is cancelled when the function has returned.  (The loop   *)
(* reads the flag once, at the top of an iteration; a flag set later in    *)
(* the iteration is seen by the next one, which is the interleaving where  *)
(* TimerFire follows CycleNext.)                                           *)
(***************************************************************************)
InDetectCycles == pc \in { "detect_cycles", "cycle_loop", "cycle_exit", "cycle_except" }

C22_TimeoutReturnsPartial ==
    /\ timed_out => stop_event
    /\ timer_active => InDetectCycles
    /\ stop_event =>
          /\ LET cycles == DirectedCycles(G)
             IN \A i \in DOMAIN cycle_rings :
                   /\ cycle_rings[i].members \in cycles
                   /\ cycle_rings[i].pattern =
                          PatternOfLength(Len(cycle_rings[i].members))
          /\ \A i, j \in DOMAIN cycle_rings :
                i # j => cycle_rings[i].members # cycle_rings[j].members
          /\ Len(cycle_rings) <= MAX_CYCLES
          /\ Len(cycle_rings) = cycle_count

\* detect_cycles has returned after a timeout with one ring, short of the
\* cycles of G, and the timer is cancelled
C22_TimedOutWithOneRing ==
    /\ pc = "detect_smurfing"
    /\ timed_out
    /\ stop_event
    /\ ~timer_active
    /\ Len(cycle_rings) = 1
    /\ Cardinality(DirectedCycles(G)) > 1

(***************************************************************************)
(* C23: once the timer has fired, detect_cycles stops enumerating without  *)
(* needing the enumerator to produce another cycle: whenever the flag is   *)
(* set while the loop waits for the enumerator, the function can leave the *)
(* loop and return from that very state.                                   *)
(***************************************************************************)
C23_AbortWithoutYield ==
    (pc = "cycle_loop" /\ stop_event) => ENABLED CycleReturn

\* the flag is set before the enumerator has handed out its first cycle: the
\* loop has nothing to test it with and cannot return
C23_WaitingForEnumerator ==
    /\ pc = "cycle_loop"
    /\ stop_event
    /\ timer_active
    /\ ~timed_out
    /\ cyc_todo = SimpleCycles(G, SccNodes(G))
    /\ cycle_rings = << >>
    /\ ~ENABLED CycleReturn
    /\ ENABLED CycleNext

(***************************************************************************)
(* C24: in _merge_rings a later unused ring is absorbed exactly when it    *)
(* overlaps the absorbing group's running member set (the seed plus what   *)
(* the pass has absorbed so far): the merged member lists are those of the *)
(* pass that tests every ring against the running set.                     *)
(***************************************************************************)
RECURSIVE RunningInner(_, _, _)
\* the loop over j with the test made against the running member set;
\* acc = [used, current_members]
RunningInner(rings, j, acc) ==
    IF j > Len(rings) THEN acc
    ELSE IF acc.used[j] THEN RunningInner(rings, j + 1, acc)
    ELSE IF _should_merge([members |-> SortSet(acc.current_members)], rings[j])
         THEN RunningInner(rings, j + 1,
                [used |-> [acc.used EXCEPT ![j] = TRUE],
                 current_members |-> acc.current_members \cup Range(rings[j].members)])
         ELSE RunningInner(rings, j + 1, acc)

RECURSIVE RunningOuter(_, _, _, _)
RunningOuter(rings, used, i, merged) ==
    IF i > Len(rings) THEN merged
    ELSE IF used[i] THEN RunningOuter(rings, used, i + 1, merged)
    ELSE LET acc == RunningInner(rings, i + 1,
                        [used |-> used, current_members |-> Range(rings[i].members)])
         IN RunningOuter(rings, [acc.used EXCEPT ![i] = TRUE], i + 1,
                         Append(merged, SortSet(acc.current_members)))

\* the member lists of the merged rings when the overlap is tested against
\* the running member set
RunningSetMembers(rings) ==
    RunningOuter(rings, [i \in DOMAIN rings |-> FALSE], 1, << >>)

C24_RunningSetDecides ==
    pc \in { "calculate_scores", "format_output", "done" } =>
        [k \in DOMAIN all_rings |-> all_rings[k].members]
            = RunningSetMembers(DetectorRings)

\* a ring that shares at least half of its accounts with what a seed has
\* absorbed, and less than half with the seed itself, is left out of the
\* seed's merged ring
C24_TestedAgainstSeedOnly ==
    /\ pc = "done"
    /\ Len(all_rings) = 2
    /\ Len(RunningSetMembers(DetectorRings)) = 1
    /\ \E i, j \in DOMAIN DetectorRings :
          /\ i < j
          /\ SeedOf(DetectorRings)[i] = i
          /\ SeedOf(DetectorRings)[j] = j
          /\ ~_should_merge(DetectorRings[i], DetectorRings[j])
          /\ _should_merge([members |-> all_rings[1].members], DetectorRings[j])
          /\ all_rings[2].members = SortSet(Range(DetectorRings[j].members))

(***************************************************************************)
(* C25: detect_shell_networks never returns more than MAX_SHELL_CHAINS     *)
(* rings, for any graph and any order in which the candidate sources are   *)
(* visited; a popped path whose last account has several successors        *)
(* appends one ring at most, all its extensions sharing one key.           *)
(***************************************************************************)
C25_AtMostMaxShellChains ==
    pc = "detect_shell_networks_return" => Len(shell_rings) <= ShellCap

\* the cap cut the result short: ShellCap rings are returned on a graph that
\* has more chains, one of them through the account with two successors
C25_CapReached ==
    /\ pc = "detect_shell_networks_return"
    /\ Len(shell_rings) = ShellCap
    /\ OutDegree(G, 3) = 2
    /\ \E order \in Perms(CandidateSources(G)) :
          Len(ShellNetworks(G, order, MAX_SHELL_CHAINS)) > ShellCap

\* the dwell times, in seconds, of the pairs (row that a receives, row that a
\* sends) of d, one per pair of rows
DwellPairs(d, a) ==
    { << i, j >> \in (DOMAIN d) \X (DOMAIN d) :
        /\ d[i].receiver_id = a
        /\ d[j].sender_id = a }

RapidPairs(d, a) ==
    { p \in DwellPairs(d, a) :
        /\ d[p[2]].timestamp - d[p[1]].timestamp >= 0
        /\ d[p[2]].timestamp - d[p[1]].timestamp <= RAPID_MOVEMENT_MINUTES * 60 }

\* the items that the returned dict holds for account a
RapidItems(a) == { i \in DOMAIN rapid_accounts : rapid_accounts[i].acc = a }

PositiveDwells(d, a) ==
    { d[p[2]].timestamp - d[p[1]].timestamp :
        p \in { p \in RapidPairs(d, a) : d[p[2]].timestamp > d[p[1]].timestamp } }

C27_MinPositiveDwell ==
    pc = "detect_rapid_movements_return" =>
        \A i \in DOMAIN rapid_accounts :
            LET a == rapid_accounts[i].acc
            IN /\ PositiveDwells(df, a) # {}
               /\ rapid_accounts[i].min_dwell_minutes =
                      RoundHalfEven(10 * SetMin(PositiveDwells(df, a)), 60)

\* account 2 sends at the instant at which it receives and again a minute
\* later: the recorded minimum is 0.0 minutes, not 1.0
C27_ZeroDwellRecorded ==
    /\ pc = "detect_rapid_movements_return"
    /\ \E i \in DOMAIN rapid_accounts :
          /\ rapid_accounts[i].acc = 2
          /\ rapid_accounts[i].min_dwell_minutes = 0
          /\ SetMin(PositiveDwells(df, 2) \cup { 3600 }) = 60

(***************************************************************************)
(* C28: every account that the report labels cycle_length_L lies on a      *)
(* simple directed cycle of length L of G; an account on no cycle gets no  *)
(* cycle label and no cycle score, also when its ring was merged with a    *)
(* cycle ring.                                                             *)
(***************************************************************************)
C28_CycleLabelOnCycle ==
    pc = "done" =>
        LET cycles == SimpleCycles(G, SccNodes(G))
        IN \A i \in DOMAIN report.suspicious_accounts :
              \A L \in CYCLE_MIN_LEN..CYCLE_MAX_LEN :
                  PatternOfLength(L) \in Range(report.suspicious_accounts[i].detected_patterns)
                      => \E c \in cycles :
                            /\ Len(c) = L
                            /\ report.suspicious_accounts[i].account_id \in Range(c)

\* a fan ring was merged with a triangle through its hub: a spoke that is on
\* no cycle of G is reported as cycle_length_3 with the score of a triangle
C28_SpokeLabelledCycle ==
    /\ pc = "done"
    /\ \E i \in DOMAIN report.suspicious_accounts :
          LET a == report.suspicious_accounts[i].account_id
          IN /\ ~OnDirectedCycle(G, a)
             /\ "cycle_length_3" \in Range(report.suspicious_accounts[i].detected_patterns)
             /\ report.suspicious_accounts[i].suspicion_score >= Tenths(SCORE_CYCLE_3)
             /\ \E k \in DOMAIN all_rings :
                   /\ a \in Range(all_rings[k].members)
                   /\ all_rings[k].pattern = "cycle_length_3"
                   /\ all_rings[k].merged_patterns \cap FanPatterns # {}

(***************************************************************************)
(* C29: every account that detect_smurfing reports as the hub of a fan_in  *)
(* or fan_out ring has, after merging and scoring, that fan pattern among  *)
(* its patterns and the fan contribution in its score, also when its ring  *)
(* was absorbed into another ring.                                         *)
(***************************************************************************)
C29_HubKeepsFanScore ==
    pc \in { "format_output", "done" } =>
        \A i \in DOMAIN smurf_rings :
            \E e \in ScoresOf(smurf_rings[i].hub) :
                /\ smurf_rings[i].pattern \in Range(e.patterns)
                /\ e.score >= Tenths(SCORE_FAN_IN)

\* the fan_in ring of hub 2 was absorbed into the fan_in ring of hub 1: the
\* merged ring has hub 1, and account 2 is scored as a spoke, without the
\* label and below the fan contribution
C29_AbsorbedHubUnscored ==
    /\ pc = "format_output"
    /\ Len(smurf_rings) = 2
    /\ smurf_rings[1].pattern = "fan_in" /\ smurf_rings[1].hub = 1
    /\ smurf_rings[2].pattern = "fan_in" /\ smurf_rings[2].hub = 2
    /\ Len(all_rings) = 1
    /\ all_rings[1].pattern = "fan_in" /\ all_rings[1].hub = 1
    /\ 2 \in Range(all_rings[1].members)
    /\ \E e \in ScoresOf(1) : "fan_in" \in Range(e.patterns)
    /\ \E e \in ScoresOf(2) :
          /\ "fan_in" \notin Range(e.patterns)
          /\ e.score < Tenths(SCORE_FAN_IN)

(***************************************************************************)
(* C30: after merging and scoring, every member of a ring whose primary    *)
(* pattern is shell_chain has the label shell_chain and the full           *)
(* contribution of SCORE_SHELL for that ring, members that came from an    *)
(* absorbed second shell_chain ring included.                              *)
(***************************************************************************)
C30_ShellMembersFullScore ==
    pc \in { "format_output", "done" } =>
        \A k \in DOMAIN all_rings : all_rings[k].pattern = "shell_chain" =>
            \A a \in Range(all_rings[k].members) :
                \E e \in ScoresOf(a) :
                    /\ "shell_chain" \in Range(e.patterns)
                    /\ e.score >= Tenths(SCORE_SHELL)

\* the shell ring [2, 3] absorbed the shell rings of the longer chains: the
\* merged ring lists 2, 3 and 4 and keeps the intermediaries of its seed, and
\* account 4 is scored half, without the label
C30_AbsorbedShellHalf ==
    /\ pc = "format_output"
    /\ Len(shell_rings) >= 2
    /\ shell_rings[1].members = << 2, 3 >>
    /\ \E j \in DOMAIN shell_rings : 4 \in Range(shell_rings[j].shell_intermediaries)
    /\ Len(all_rings) = 1
    /\ all_rings[1].pattern = "shell_chain"
    /\ all_rings[1].members = << 2, 3, 4 >>
    /\ all_rings[1].shell_intermediaries = << 2, 3 >>
    /\ \E e \in ScoresOf(2) : "shell_chain" \in Range(e.patterns)
    /\ \E e \in ScoresOf(4) :
          /\ "shell_chain" \notin Range(e.patterns)
          /\ e.score >= Tenths(SCORE_SHELL) \div 2
          /\ e.score < Tenths(SCORE_SHELL)

====
